---- MODULE Spec2Model ----
(***************************************************************************)
(* Symbol and section resolution of the linker (wild_lib/src/resolution.rs *)
(* and src/output_section_part_map.rs).                                    *)
(*                                                                         *)
(* Part 1: the parallel work driver resolve_symbols_in_files, with its     *)
(* work queue, definitions cells, idle-thread queue and park/unpark.       *)
(* Part 2: select_symbol / symbol_strength.                                *)
(* Part 3: canonicalise_undefined_symbols.                                 *)
(* Part 4: merge-string parsing and merge_strings.                         *)
(* Part 5: OutputSectionPartMap.                                           *)
(*                                                                         *)
(* An Option<T> of the source is a sequence of length 0 (None) or 1        *)
(* (Some(x)).  A FileId (group, file) is flattened to one index.           *)
(***************************************************************************)
EXTENDS Integers, Sequences, FiniteSets, TLC

\* ------------------------------------------------------------------ bounds
MaxThreads == 2
NumFiles == 4

Threads == 1..MaxThreads
Files == 0..(NumFiles - 1)

\* input_data::PRELUDE_FILE_ID: the prelude is the first file of the first group.
PRELUDE_FILE_ID == 0

None == <<>>
Some(x) == <<x>>
IsSome(o) == Len(o) = 1
Unwrap(o) == o[1]

\* ------------------------------------------------------------------ state
VARIABLES
    groups,            \* the parsed input: file -> [kind, optional, symbols, fail_at]
    num_threads,       \* symbol_db.args.num_threads
    main_pc,           \* position of resolve_symbols_in_files itself
    definitions_per_file, \* file -> TRUE while the DefinitionsCell holds Some(slice)
    work_queue,        \* SegQueue<WorkItem>: sequence of file ids
    idle_threads,      \* Option<ArrayQueue<Thread>>: None or Some(sequence of threads)
    done,              \* AtomicBool
    loaded,            \* outputs.loaded: ArrayQueue<ResolvedObject>, as file ids
    errors,            \* outputs.errors: ArrayQueue<Error> of capacity 1
    num_objects,       \* the count of ParsedInput::Object
    resolved,          \* file -> "NotLoaded" | "Object" | "Epilogue"
    result,            \* None, or Some of [ok |-> BOOLEAN, err |-> ...]
    db_calls,          \* the calls of take_definitions / restore_definitions, in order
    pc,                \* thread -> position in the worker closure
    idle,              \* thread -> the local `idle` flag
    work_item,         \* thread -> Option<file id> being processed
    sym_index,         \* thread -> index of the symbol resolve_symbols is at
    popped,            \* thread -> Option<thread> popped from idle_threads, not yet unparked
    park_token,        \* thread -> the token of std::thread::park / unpark
    processed,         \* history: file -> number of process_object calls
    requested,         \* history: files request_file_id was called for
    error_log,         \* history: every error a worker tried to push, in order
    symbol_db,         \* symbol id -> [weak, common, size, dynamic] of its definition
    first,             \* the head symbol id of a name with alternatives
    alternatives,      \* the other definitions of the name, in chain order
    selected,          \* Option<symbol id>: what select_symbol returned
    canon,             \* None, or the state of canonicalise_undefined_symbols
    string_merge,      \* None, or the state of the string-merging pipeline
    part_map,          \* None, or the state of one operation of OutputSectionPartMap
    object,            \* None, or the state of ResolvedObject::new for one object
    passes,            \* None, or the state of resolve_symbols_and_sections
    value_flags        \* None, or the state of a ValueFlags being merged into

vars == <<groups, num_threads, main_pc, definitions_per_file, work_queue,
          idle_threads, done, loaded, errors, num_objects, resolved, result,
          db_calls,
          pc, idle, work_item, sym_index, popped, park_token,
          processed, requested, error_log,
          symbol_db, first, alternatives, selected,
          canon, string_merge,
          part_map, object, passes, value_flags>>

inputVars == <<groups, num_threads>>
sharedVars == <<definitions_per_file, work_queue, idle_threads, done, loaded, errors>>
mainVars == <<main_pc, num_objects, resolved, result, db_calls>>
localVars == <<pc, idle, work_item, sym_index, popped, park_token>>
histVars == <<processed, requested, error_log>>
selectVars == <<symbol_db, first, alternatives, selected>>
canonVars == <<canon>>
mergeVars == <<string_merge>>
partVars == <<part_map>>
objectVars == <<object>>
passVars == <<passes>>
flagVars == <<value_flags>>
driverVars == <<inputVars, sharedVars, mainVars, localVars, histVars>>
\* what the work driver never touches
nonDriverVars == <<selectVars, canonVars, mergeVars, partVars, objectVars, passVars, flagVars>>
\* what select_symbol never touches
nonSelectVars == <<driverVars, canonVars, mergeVars, partVars, objectVars, passVars, flagVars>>
\* what canonicalise_undefined_symbols never touches
nonCanonVars == <<driverVars, selectVars, mergeVars, partVars, objectVars, passVars, flagVars>>
\* what string merging never touches
nonMergeVars == <<driverVars, selectVars, canonVars, partVars, objectVars, passVars, flagVars>>
\* what the part map never touches
nonPartVars == <<driverVars, selectVars, canonVars, mergeVars, objectVars, passVars, flagVars>>
\* what ResolvedObject::new never touches
nonObjectVars == <<driverVars, selectVars, canonVars, mergeVars, partVars, passVars, flagVars>>
\* what the passes of resolve_symbols_and_sections never touch
nonPassVars == <<driverVars, selectVars, canonVars, mergeVars, partVars, objectVars, flagVars>>
\* what ValueFlags::merge never touches
nonFlagVars == <<driverVars, selectVars, canonVars, mergeVars, partVars, objectVars, passVars>>

\* The state of canonicalise_undefined_symbols:
\* SegQueue<UndefinedSymbol>, in the order the workers pushed
undefined_queue == canon.undefined_queue
\* the Vec made of the queue; what the loop has still to visit
undefined_symbols == canon.undefined_symbols
\* position of canonicalise_undefined_symbols
canon_pc == canon.pc
\* the map of names to canonical ids: name -> Option<symbol id>
name_to_id == canon.name_to_id
\* Vec<InternalSymDefInfo>
custom_start_stop_defs == canon.custom_start_stop_defs
\* symbol id -> what replace_definition stored for it (0: nothing)
definitions == canon.definitions
\* the number of symbol ids the database has handed out
num_symbols == canon.num_symbols
\* history: the names add_start_stop_symbol was called with
start_stop_calls == canon.start_stop_calls
\* history: symbol ids of the records the loop skipped
skipped == canon.skipped

\* The state of the string-merging pipeline:
\* input section -> the bytes of its merge-string section
section_data == string_merge.section_data
\* input section -> Option<Result<UnresolvedMergeStringsFileSection>>
parsed == string_merge.parsed
\* position of the pipeline
merge_pc == string_merge.pc
\* bucket -> the strings of the worklist not yet added, in order
todo == string_merge.todo
\* the MergeStringsSection of the output section
merged == string_merge.merged
\* history: every add_string call, in the order they ran
add_log == string_merge.add_log

\* The state of an operation of OutputSectionPartMap:
\* OutputSections: the four lists of custom section ids
output_sections == part_map.output_sections
\* the OutputSectionPartMap the operation is called on
part_self == part_map.self
\* the map given as `other` / `rhs`
part_other == part_map.other
\* the operation that runs, or has returned
part_op == part_map.op
\* the callback invocations the operation makes, in order
part_calls == part_map.calls
\* the number of its next callback invocation
part_pc == part_map.pc
\* history: the callback invocations made, in order
cb_log == part_map.cb_log
\* the map output_order_map builds
part_out == part_map.out
\* the Vec merge_parts builds
values_out == part_map.values_out
\* history: part_self when the operation was called
part_old == part_map.old
\* the `size` argument of with_size
part_size == part_map.size

\* ------------------------------------------------------------------ input
File(f) == groups[f]
IsObject(f) == File(f).kind = "Object"
IsRequired(f) == IsObject(f) /\ ~File(f).optional

\* The elements of a set of numbers as an ascending sequence (iteration order of
\* groups.iter() / files.iter()).
RECURSIVE Ascending(_)
Ascending(S) ==
    IF S = {} THEN <<>>
    ELSE LET m == CHOOSE x \in S : \A y \in S : x <= y
         IN <<m>> \o Ascending(S \ {m})

\* ------------------------------------------------------------------ queues
\* crossbeam ArrayQueue::push: Err when the queue holds `capacity` elements.
ArrayQueueFull(q, capacity) == Len(q) >= capacity
\* (faulty variant: a full queue drops its oldest element, as force_push does)
ArrayQueueForcePush(q, capacity, x) ==
    IF ArrayQueueFull(q, capacity) THEN Append(Tail(q), x) ELSE Append(q, x)
ArrayQueuePush(q, capacity, x) == IF ArrayQueueFull(q, capacity) THEN q ELSE Append(q, x)

\* AtomicCell::take on the cell of file g: the cell is left holding None.
\* (faulty variant: the cell is read and keeps its slice)
TakeKeepsSlice(cells, g) == cells
Take(cells, g) == [cells EXCEPT ![g] = FALSE]

\* Thread::unpark: the token of the thread is made available.
\* (faulty variant: the wake-up is lost)
UnparkLost(tokens, t) == tokens
UnparkThread(tokens, t) == [tokens EXCEPT ![t] = TRUE]

\* num_objects counts every ParsedInput::Object, optional or not.
\* (faulty variant: counted inside `if !s.is_optional()`)
CountRequiredObjects == Cardinality({f \in Files : IsRequired(f)})
CountObjects == Cardinality({f \in Files : IsObject(f)})

\* Outputs::new(num_objects): the capacity of outputs.loaded.
\* (faulty variant: sized to the objects queued at setup)
LoadedCapacityRequiredOnly == CountRequiredObjects
LoadedCapacity == num_objects

\* resolve_symbol: the reference is to a symbol of another file and is not weak.
\* (faulty variant: the weak test is left out)
ShouldRequestIgnoringWeak(f, sym) == IsSome(sym.target) /\ Unwrap(sym.target) # f
ShouldRequest(f, sym) == IsSome(sym.target) /\ Unwrap(sym.target) # f /\ ~sym.weak

\* ------------------------------------------------------------------ main thread
\* resolve_symbols_in_files up to the spawn of the workers.
Setup ==
    /\ main_pc = "setup"
    /\ LET objects == Ascending({f \in Files : IsRequired(f)})
           count == CountObjects
       IN /\ db_calls' = Append(db_calls, "take_definitions")
          /\ definitions_per_file' = [f \in Files |-> ~IsRequired(f)]
          /\ resolved' = [f \in Files |->
                            IF File(f).kind = "Epilogue" THEN "Epilogue" ELSE "NotLoaded"]
          /\ num_objects' = count
          /\ IF count = 0
             THEN /\ result' = Some([ok |-> FALSE,
                                     err |-> [msg |-> "Cannot link with 0 input files",
                                              file |-> None]])
                  /\ main_pc' = "returned"
                  /\ UNCHANGED <<work_queue, idle_threads, pc>>
             ELSE /\ work_queue' = objects
                  /\ idle_threads' = IF num_threads > 1 THEN Some(<<>>) ELSE None
                  /\ pc' = [t \in Threads |->
                              IF t <= num_threads THEN "check_done" ELSE "unspawned"]
                  /\ main_pc' = "running"
                  /\ UNCHANGED result
    /\ UNCHANGED <<inputVars, done, loaded, errors, idle, work_item, sym_index,
                   popped, park_token, histVars, nonDriverVars>>

\* The scope has joined every worker: lines 242-254.
Return ==
    /\ main_pc = "running"
    /\ \A t \in Threads : pc[t] \in {"exit", "unspawned"}
    /\ main_pc' = "returned"
    /\ db_calls' = Append(db_calls, "restore_definitions")
    /\ IF errors # <<>>
       THEN /\ result' = Some([ok |-> FALSE, err |-> Head(errors)])
            /\ errors' = Tail(errors)
            /\ UNCHANGED resolved
       ELSE /\ result' = Some([ok |-> TRUE, err |-> [msg |-> "", file |-> None]])
            /\ resolved' = [f \in Files |->
                              IF \E i \in 1..Len(loaded) : loaded[i] = f
                              THEN "Object" ELSE resolved[f]]
            /\ UNCHANGED errors
    /\ UNCHANGED <<inputVars, definitions_per_file, work_queue, idle_threads, done,
                   loaded, num_objects, localVars, histVars, nonDriverVars>>

\* resolve_symbols_and_sections after resolve_symbols_in_files returned Ok and
\* the passes that follow it returned Ok (none of them changes which variant a
\* file is): the prelude takes its slot and ResolutionOutputs is returned.
InstallPrelude ==
    /\ main_pc = "returned"
    /\ IsSome(result) /\ Unwrap(result).ok
    /\ resolved' = [resolved EXCEPT ![PRELUDE_FILE_ID] = "Prelude"]
    /\ main_pc' = "outputs"
    /\ UNCHANGED <<inputVars, sharedVars, num_objects, result, db_calls, localVars,
                   histVars, nonDriverVars>>

\* ------------------------------------------------------------------ workers
\* while !done.load(Relaxed)
CheckDone(t) ==
    /\ pc[t] = "check_done"
    /\ pc' = [pc EXCEPT ![t] = IF done THEN "exit" ELSE "pop_work"]
    /\ UNCHANGED <<inputVars, sharedVars, mainVars, idle, work_item, sym_index,
                   popped, park_token, histVars, nonDriverVars>>

\* while let Some(work_item) = work_queue.pop(): an item was popped and
\* process_object is entered.
PopWorkSome(t) ==
    /\ pc[t] = "pop_work"
    /\ work_queue # <<>>
    /\ work_item' = [work_item EXCEPT ![t] = Some(Head(work_queue))]
    /\ work_queue' = Tail(work_queue)
    /\ sym_index' = [sym_index EXCEPT ![t] = 1]
    /\ processed' = [processed EXCEPT ![Head(work_queue)] = @ + 1]
    /\ pc' = [pc EXCEPT ![t] = "process"]
    /\ UNCHANGED <<inputVars, definitions_per_file, idle_threads, done, loaded, errors,
                   mainVars, idle, popped, park_token, requested, error_log, nonDriverVars>>

\* (faulty variant: without an idle queue the worker goes round the outer loop
\* instead of breaking)
PopWorkNoneContinues(t) ==
    /\ pc[t] = "pop_work"
    /\ work_queue = <<>>
    /\ pc' = [pc EXCEPT ![t] = IF idle[t] THEN "park"
                               ELSE IF IsSome(idle_threads) THEN "push_idle"
                               ELSE "check_done"]
    /\ UNCHANGED <<inputVars, sharedVars, mainVars, idle, work_item, sym_index,
                   popped, park_token, histVars, nonDriverVars>>

\* work_queue.pop() returned None: the `if idle` test and, on one thread, the break.
PopWorkNone(t) ==
    /\ pc[t] = "pop_work"
    /\ work_queue = <<>>
    /\ pc' = [pc EXCEPT ![t] = IF idle[t] THEN "park"
                               ELSE IF IsSome(idle_threads) THEN "push_idle"
                               ELSE "exit"]
    /\ UNCHANGED <<inputVars, sharedVars, mainVars, idle, work_item, sym_index,
                   popped, park_token, histVars, nonDriverVars>>

\* (faulty variant: a file that is no object is pushed to outputs.loaded too)
ProcessNotObjectLoads(t) ==
    /\ pc[t] = "process"
    /\ ~IsObject(Unwrap(work_item[t]))
    /\ loaded' = ArrayQueuePush(loaded, LoadedCapacity, Unwrap(work_item[t]))
    /\ work_item' = [work_item EXCEPT ![t] = None]
    /\ sym_index' = [sym_index EXCEPT ![t] = 0]
    /\ pc' = [pc EXCEPT ![t] = "pop_work"]
    /\ UNCHANGED <<inputVars, definitions_per_file, work_queue, idle_threads, done,
                   errors, mainVars, idle, popped, park_token, histVars, nonDriverVars>>

\* process_object on a file that is not ParsedInput::Object: Ok(()) and nothing else.
ProcessNotObject(t) ==
    /\ pc[t] = "process"
    /\ ~IsObject(Unwrap(work_item[t]))
    /\ work_item' = [work_item EXCEPT ![t] = None]
    /\ sym_index' = [sym_index EXCEPT ![t] = 0]
    /\ pc' = [pc EXCEPT ![t] = "pop_work"]
    /\ UNCHANGED <<inputVars, sharedVars, mainVars, idle, popped,
                   park_token, histVars, nonDriverVars>>

\* (faulty variant: the worker that sees the failure leaves its loop)
ProcessFailBreaks(t) ==
    /\ pc[t] = "process"
    /\ LET f == Unwrap(work_item[t])
           e == [msg |-> "Failed to process", file |-> Some(f)]
       IN /\ IsObject(f)
          /\ File(f).fail_at = sym_index[t]
          /\ errors' = ArrayQueuePush(errors, 1, e)
          /\ error_log' = Append(error_log, e)
    /\ work_item' = [work_item EXCEPT ![t] = None]
    /\ sym_index' = [sym_index EXCEPT ![t] = 0]
    /\ pc' = [pc EXCEPT ![t] = "exit"]
    /\ UNCHANGED <<inputVars, definitions_per_file, work_queue, idle_threads, done,
                   loaded, mainVars, idle, popped, park_token,
                   processed, requested, nonDriverVars>>

\* ResolvedObject::new returned Err: the worker pushes it to outputs.errors and
\* ignores the result of the push.
ProcessFail(t) ==
    /\ pc[t] = "process"
    /\ LET f == Unwrap(work_item[t])
           e == [msg |-> "Failed to process", file |-> Some(f)]
       IN /\ IsObject(f)
          /\ File(f).fail_at = sym_index[t]
          /\ errors' = ArrayQueuePush(errors, 1, e)
          /\ error_log' = Append(error_log, e)
    /\ work_item' = [work_item EXCEPT ![t] = None]
    /\ sym_index' = [sym_index EXCEPT ![t] = 0]
    /\ pc' = [pc EXCEPT ![t] = "pop_work"]
    /\ UNCHANGED <<inputVars, definitions_per_file, work_queue, idle_threads, done,
                   loaded, mainVars, idle, popped, park_token,
                   processed, requested, nonDriverVars>>

\* resolve_symbol for the symbol at sym_index; a non-weak reference to a symbol of
\* another file calls request_file_id, whose first step takes the DefinitionsCell.
ResolveSymbol(t) ==
    /\ pc[t] = "process"
    /\ LET f == Unwrap(work_item[t])
           i == sym_index[t]
       IN /\ IsObject(f)
          /\ File(f).fail_at # i
          /\ i <= Len(File(f).symbols)
          /\ LET sym == File(f).symbols[i]
             IN IF ShouldRequest(f, sym)
                THEN LET g == Unwrap(sym.target)
                     IN /\ requested' = requested \cup {g}
                        /\ IF definitions_per_file[g]
                           THEN /\ definitions_per_file' = Take(definitions_per_file, g)
                                /\ pc' = [pc EXCEPT ![t] = "push_work"]
                                /\ UNCHANGED sym_index
                           ELSE /\ sym_index' = [sym_index EXCEPT ![t] = i + 1]
                                /\ UNCHANGED <<definitions_per_file, pc>>
                ELSE /\ sym_index' = [sym_index EXCEPT ![t] = i + 1]
                     /\ UNCHANGED <<definitions_per_file, pc, requested>>
    /\ UNCHANGED <<inputVars, work_queue, idle_threads, done, loaded, errors,
                   mainVars, idle, work_item, popped, park_token, processed, error_log, nonDriverVars>>

\* (faulty variant of the push of request_file_id: the work item is queued twice)
PushWorkTwice(t) ==
    /\ pc[t] = "push_work"
    /\ LET f == Unwrap(work_item[t])
           g == Unwrap(File(f).symbols[sym_index[t]].target)
       IN work_queue' = Append(Append(work_queue, g), g)
    /\ pc' = [pc EXCEPT ![t] = "pop_idle"]
    /\ UNCHANGED <<inputVars, definitions_per_file, idle_threads, done, loaded, errors,
                   mainVars, idle, work_item, sym_index, popped, park_token, histVars, nonDriverVars>>

\* request_file_id: self.work_queue.push(WorkItem { .. })
PushWork(t) ==
    /\ pc[t] = "push_work"
    /\ LET f == Unwrap(work_item[t])
           g == Unwrap(File(f).symbols[sym_index[t]].target)
       IN work_queue' = Append(work_queue, g)
    /\ pc' = [pc EXCEPT ![t] = "pop_idle"]
    /\ UNCHANGED <<inputVars, definitions_per_file, idle_threads, done, loaded, errors,
                   mainVars, idle, work_item, sym_index, popped, park_token, histVars, nonDriverVars>>

\* (faulty variant: the handle popped is dropped without being unparked)
PopIdleForgets(t) ==
    /\ pc[t] = "pop_idle"
    /\ IF IsSome(idle_threads) /\ Unwrap(idle_threads) # <<>>
       THEN idle_threads' = Some(Tail(Unwrap(idle_threads)))
       ELSE UNCHANGED idle_threads
    /\ sym_index' = [sym_index EXCEPT ![t] = @ + 1]
    /\ pc' = [pc EXCEPT ![t] = "process"]
    /\ UNCHANGED <<inputVars, definitions_per_file, work_queue, done, loaded, errors,
                   mainVars, idle, work_item, popped, park_token, histVars, nonDriverVars>>

\* request_file_id: idle_threads.as_ref().and_then(|q| q.pop())
PopIdle(t) ==
    /\ pc[t] = "pop_idle"
    /\ IF IsSome(idle_threads) /\ Unwrap(idle_threads) # <<>>
       THEN /\ popped' = [popped EXCEPT ![t] = Some(Head(Unwrap(idle_threads)))]
            /\ idle_threads' = Some(Tail(Unwrap(idle_threads)))
            /\ pc' = [pc EXCEPT ![t] = "unpark"]
            /\ UNCHANGED sym_index
       ELSE /\ sym_index' = [sym_index EXCEPT ![t] = @ + 1]
            /\ pc' = [pc EXCEPT ![t] = "process"]
            /\ UNCHANGED <<popped, idle_threads>>
    /\ UNCHANGED <<inputVars, definitions_per_file, work_queue, done, loaded, errors,
                   mainVars, idle, work_item, park_token, histVars, nonDriverVars>>

\* request_file_id: thread.unpark()
Unpark(t) ==
    /\ pc[t] = "unpark"
    /\ park_token' = UnparkThread(park_token, Unwrap(popped[t]))
    /\ popped' = [popped EXCEPT ![t] = None]
    /\ sym_index' = [sym_index EXCEPT ![t] = @ + 1]
    /\ pc' = [pc EXCEPT ![t] = "process"]
    /\ UNCHANGED <<inputVars, sharedVars, mainVars, idle, work_item, histVars, nonDriverVars>>

\* ResolvedObject::new returned Ok: outputs.loaded.push(res), result ignored.
ProcessDone(t) ==
    /\ pc[t] = "process"
    /\ LET f == Unwrap(work_item[t])
       IN /\ IsObject(f)
          /\ File(f).fail_at # sym_index[t]
          /\ sym_index[t] > Len(File(f).symbols)
          /\ loaded' = ArrayQueuePush(loaded, LoadedCapacity, f)
    /\ work_item' = [work_item EXCEPT ![t] = None]
    /\ sym_index' = [sym_index EXCEPT ![t] = 0]
    /\ pc' = [pc EXCEPT ![t] = "pop_work"]
    /\ UNCHANGED <<inputVars, definitions_per_file, work_queue, idle_threads, done,
                   errors, mainVars, idle, popped, park_token, histVars, nonDriverVars>>

\* idle_threads.push(std::thread::current()): Ok sets idle = true and goes round
\* the loop; Err means the queue is full.
PushIdle(t) ==
    /\ pc[t] = "push_idle"
    /\ IF ArrayQueueFull(Unwrap(idle_threads), num_threads - 1)
       THEN /\ pc' = [pc EXCEPT ![t] = "store_done"]
            /\ UNCHANGED <<idle_threads, idle>>
       ELSE /\ idle_threads' = Some(Append(Unwrap(idle_threads), t))
            /\ idle' = [idle EXCEPT ![t] = TRUE]
            /\ pc' = [pc EXCEPT ![t] = "check_done"]
    /\ UNCHANGED <<inputVars, definitions_per_file, work_queue, done, loaded, errors,
                   mainVars, work_item, sym_index, popped, park_token, histVars, nonDriverVars>>

\* done.store(true, Relaxed)
StoreDone(t) ==
    /\ pc[t] = "store_done"
    /\ done' = TRUE
    /\ pc' = [pc EXCEPT ![t] = "drain_idle"]
    /\ UNCHANGED <<inputVars, definitions_per_file, work_queue, idle_threads, loaded,
                   errors, mainVars, idle, work_item, sym_index, popped, park_token,
                   histVars, nonDriverVars>>

\* while let Some(thread) = idle_threads.pop() ... break
DrainIdle(t) ==
    /\ pc[t] = "drain_idle"
    /\ IF Unwrap(idle_threads) # <<>>
       THEN /\ popped' = [popped EXCEPT ![t] = Some(Head(Unwrap(idle_threads)))]
            /\ idle_threads' = Some(Tail(Unwrap(idle_threads)))
            /\ pc' = [pc EXCEPT ![t] = "unpark_drained"]
       ELSE /\ pc' = [pc EXCEPT ![t] = "exit"]
            /\ UNCHANGED <<popped, idle_threads>>
    /\ UNCHANGED <<inputVars, definitions_per_file, work_queue, done, loaded, errors,
                   mainVars, idle, work_item, sym_index, park_token, histVars, nonDriverVars>>

\* thread.unpark() of the shutdown loop
UnparkDrained(t) ==
    /\ pc[t] = "unpark_drained"
    /\ park_token' = UnparkThread(park_token, Unwrap(popped[t]))
    /\ popped' = [popped EXCEPT ![t] = None]
    /\ pc' = [pc EXCEPT ![t] = "drain_idle"]
    /\ UNCHANGED <<inputVars, sharedVars, mainVars, idle, work_item, sym_index, histVars, nonDriverVars>>

\* std::thread::park() returns once the token is set, consuming it; idle = false.
Park(t) ==
    /\ pc[t] = "park"
    /\ park_token[t]
    /\ park_token' = [park_token EXCEPT ![t] = FALSE]
    /\ idle' = [idle EXCEPT ![t] = FALSE]
    /\ pc' = [pc EXCEPT ![t] = "check_done"]
    /\ UNCHANGED <<inputVars, sharedVars, mainVars, work_item, sym_index, popped, histVars, nonDriverVars>>

\* ------------------------------------------------------------------ select_symbol
\* Every file but the prelude may define the name; symbol id s is the definition
\* in file s (SymbolDb::file_id_for_symbol).
SymbolIds == 1..(NumFiles - 1)
file_id_for_symbol(symbol_id) == symbol_id

\* The sizes a common symbol may have (st_size).
MaxSize == 2

Undefined == [kind |-> "Undefined", size |-> 0]
Weak == [kind |-> "Weak", size |-> 0]
Strong == [kind |-> "Strong", size |-> 0]
Common(size) == [kind |-> "Common", size |-> size]

\* SymbolDb::symbol_strength
symbol_strength(symbol_id, res) ==
    IF res[file_id_for_symbol(symbol_id)] = "Object"
    THEN IF symbol_db[symbol_id].weak THEN Weak
         ELSE IF symbol_db[symbol_id].common THEN Common(symbol_db[symbol_id].size)
         ELSE Strong
    ELSE Undefined

\* symbol_db.symbol_value_flags(alt).contains(ValueFlags::DYNAMIC)
IsDynamic(symbol_id) == symbol_db[symbol_id].dynamic

\* alternatives.iter().rev()
\* (faulty variant: the alternatives are visited in chain order)
NotReversed(s) == s
Rev(s) == [i \in 1..Len(s) |-> s[Len(s) + 1 - i]]

\* (faulty variant of the first loop: a Common of the same size replaces the one
\* kept, so that a tie goes to the one scanned later)
RECURSIVE ScanAlternativesTieReplaces(_, _, _)
ScanAlternativesTieReplaces(rest, max_common, res) ==
    IF rest = <<>> THEN [ret |-> None, max_common |-> max_common]
    ELSE LET alt == Head(rest)
             strength == symbol_strength(alt, res)
         IN IF IsDynamic(alt) THEN ScanAlternativesTieReplaces(Tail(rest), max_common, res)
            ELSE IF strength.kind = "Strong"
                 THEN [ret |-> Some(alt), max_common |-> max_common]
            ELSE IF strength.kind = "Common"
                 THEN IF IsSome(max_common) /\ strength.size < Unwrap(max_common).size
                      THEN ScanAlternativesTieReplaces(Tail(rest), max_common, res)
                      ELSE ScanAlternativesTieReplaces(Tail(rest),
                                            Some([size |-> strength.size, alt |-> alt]), res)
            ELSE ScanAlternativesTieReplaces(Tail(rest), max_common, res)

\* The first loop of select_symbol over the alternatives still to visit: the
\* result is [ret |-> Some(alt)] when a Strong alternative returns at once, and
\* the final max_common otherwise.
RECURSIVE ScanAlternatives(_, _, _)
ScanAlternatives(rest, max_common, res) ==
    IF rest = <<>> THEN [ret |-> None, max_common |-> max_common]
    ELSE LET alt == Head(rest)
             strength == symbol_strength(alt, res)
         IN IF IsDynamic(alt) THEN ScanAlternatives(Tail(rest), max_common, res)
            ELSE IF strength.kind = "Strong"
                 THEN [ret |-> Some(alt), max_common |-> max_common]
            ELSE IF strength.kind = "Common"
                 THEN IF IsSome(max_common) /\ strength.size <= Unwrap(max_common).size
                      THEN ScanAlternatives(Tail(rest), max_common, res)
                      ELSE ScanAlternatives(Tail(rest),
                                            Some([size |-> strength.size, alt |-> alt]), res)
            ELSE ScanAlternatives(Tail(rest), max_common, res)

\* (faulty variant of the last loop: the first alternative is taken, loaded or not)
FirstAlternative(rest, symbol_id, res) ==
    IF rest = <<>> THEN symbol_id ELSE Head(rest)

\* The last loop of select_symbol: the first alternative that is not Undefined.
RECURSIVE FirstDefined(_, _, _)
FirstDefined(rest, symbol_id, res) ==
    IF rest = <<>> THEN symbol_id
    ELSE IF symbol_strength(Head(rest), res).kind # "Undefined" THEN Head(rest)
    ELSE FirstDefined(Tail(rest), symbol_id, res)

select_symbol(symbol_id, alts, res) ==
    LET first_strength == symbol_strength(symbol_id, res)
        scan == ScanAlternatives(Rev(alts), None, res)
    IN IF first_strength.kind = "Strong" THEN symbol_id
       ELSE IF IsSome(scan.ret) THEN Unwrap(scan.ret)
       ELSE IF IsSome(scan.max_common) THEN Unwrap(scan.max_common).alt
       ELSE IF first_strength.kind # "Undefined" THEN symbol_id
       ELSE FirstDefined(Rev(alts), symbol_id, res)

\* resolve_alternative_symbol_definitions: let selected = select_symbol(..)
SelectSymbol ==
    /\ selected = None
    /\ selected' = Some(select_symbol(first, alternatives, resolved))
    /\ UNCHANGED <<nonSelectVars, symbol_db, first, alternatives>>

\* ------------------------------------------------------------------ canonicalise_undefined_symbols
\* The most records the undefined-symbols queue holds; each has its own symbol id.
MaxUndefined == 2
UndefinedIds == 1..MaxUndefined

\* Symbol names are byte strings, here sequences of one-character strings.
START_PREFIX == <<"_", "_", "s", "t", "a", "r", "t", "_">>
STOP_PREFIX == <<"_", "_", "s", "t", "o", "p", "_">>
FooName == <<"f", "o", "o">>
BarName == <<"b", "a", "r">>

\* <[u8]>::strip_prefix
strip_prefix(bytes, prefix) ==
    IF Len(bytes) >= Len(prefix) /\ SubSeq(bytes, 1, Len(prefix)) = prefix
    THEN Some(SubSeq(bytes, Len(prefix) + 1, Len(bytes)))
    ELSE None

\* The custom output sections of the link, in id order: `foo` is one, `bar` is not.
CustomSections == <<FooName>>

\* OutputSections::custom_name_to_id: the id of the custom section of that name.
custom_name_to_id(section_name) ==
    IF \E i \in 1..Len(CustomSections) : CustomSections[i] = section_name
    THEN Some(CHOOSE i \in 1..Len(CustomSections) : CustomSections[i] = section_name)
    ELSE None

\* The names undefined symbols have in the model.
CanonNames ==
    { START_PREFIX \o FooName, STOP_PREFIX \o FooName, START_PREFIX \o BarName, FooName }

SectionStart(section_id) == [kind |-> "SectionStart", section_id |-> section_id]
SectionEnd(section_id) == [kind |-> "SectionEnd", section_id |-> section_id]

\* The InternalSymDefInfo of a start or a stop symbol of a section.
\* (faulty variant: is_start is not looked at)
AlwaysSectionStart(is_start, section_id) == SectionStart(section_id)
StartStopDef(is_start, section_id) ==
    IF is_start THEN SectionStart(section_id) ELSE SectionEnd(section_id)

\* allocate_start_stop_symbol_id: the Option<SymbolId> returned, with the defs
\* list, the symbol count and the log of add_start_stop_symbol calls it leaves.
allocate_start_stop_symbol_id(name, defs, count, calls) ==
    LET unchanged == [symbol_id |-> None, defs |-> defs, count |-> count, calls |-> calls]
        start == strip_prefix(name, START_PREFIX)
        stop == strip_prefix(name, STOP_PREFIX)
    IN IF ~IsSome(start) /\ ~IsSome(stop) THEN unchanged
       ELSE LET is_start == IsSome(start)
                section_name == IF is_start THEN Unwrap(start) ELSE Unwrap(stop)
                section_id == custom_name_to_id(section_name)
            IN IF ~IsSome(section_id) THEN unchanged
               ELSE \* symbol_db.add_start_stop_symbol(name): a new symbol id
                    [symbol_id |-> Some(count + 1),
                     defs |-> Append(defs, StartStopDef(is_start, Unwrap(section_id))),
                     count |-> count + 1,
                     calls |-> Append(calls, name)]

\* s with x inserted before the first element whose symbol_id is greater.
RECURSIVE InsertBySymbolId(_, _)
InsertBySymbolId(s, x) ==
    IF s = <<>> THEN <<x>>
    ELSE IF Head(s).symbol_id <= x.symbol_id
         THEN <<Head(s)>> \o InsertBySymbolId(Tail(s), x)
         ELSE <<x>> \o s

\* undefined_symbols.sort_by_key(|u| u.symbol_id): a stable sort.
\* (faulty variant: the records stay in queue order)
NotSorted(s) == s
RECURSIVE SortBySymbolId(_)
SortBySymbolId(s) ==
    IF s = <<>> THEN <<>>
    ELSE InsertBySymbolId(SortBySymbolId(SubSeq(s, 1, Len(s) - 1)), s[Len(s)])

\* Vec::from_iter(undefined_symbols) and the sort.
CollectAndSort ==
    /\ canon_pc = "start"
    /\ canon' = [canon EXCEPT !.undefined_symbols = SortBySymbolId(undefined_queue),
                              !.pc = "loop"]
    /\ UNCHANGED nonCanonVars

\* The record names a file and that file is not ResolvedFile::NotLoaded.
\* (faulty variant: only a file that became an Object counts)
is_defined_if_object(undefined) ==
    /\ IsSome(undefined.ignore_if_loaded)
    /\ resolved[Unwrap(undefined.ignore_if_loaded)] = "Object"
is_defined(undefined) ==
    /\ IsSome(undefined.ignore_if_loaded)
    /\ resolved[Unwrap(undefined.ignore_if_loaded)] # "NotLoaded"

\* One iteration of `for undefined in undefined_symbols`.
CanonicaliseRecord ==
    /\ canon_pc = "loop"
    /\ undefined_symbols # <<>>
    /\ LET undefined == Head(undefined_symbols)
       IN IF is_defined(undefined)
          THEN canon' = [canon EXCEPT
                            !.undefined_symbols = Tail(undefined_symbols),
                            !.skipped = skipped \cup {undefined.symbol_id}]
          ELSE IF ~IsSome(name_to_id[undefined.name])
          THEN \* Entry::Vacant
               LET a == allocate_start_stop_symbol_id(undefined.name,
                            custom_start_stop_defs, num_symbols, start_stop_calls)
                   symbol_id == IF IsSome(a.symbol_id) THEN Unwrap(a.symbol_id)
                                ELSE undefined.symbol_id
               IN canon' = [canon EXCEPT
                      !.undefined_symbols = Tail(undefined_symbols),
                      !.custom_start_stop_defs = a.defs,
                      !.num_symbols = a.count,
                      !.start_stop_calls = a.calls,
                      !.name_to_id = [name_to_id EXCEPT ![undefined.name] = Some(symbol_id)],
                      !.definitions = [definitions EXCEPT ![undefined.symbol_id] = symbol_id]]
          ELSE \* Entry::Occupied
               canon' = [canon EXCEPT
                      !.undefined_symbols = Tail(undefined_symbols),
                      !.definitions = [definitions EXCEPT ![undefined.symbol_id] =
                                          Unwrap(name_to_id[undefined.name])]]
    /\ UNCHANGED nonCanonVars

\* Ok(custom_start_stop_defs)
CanonReturn ==
    /\ canon_pc = "loop"
    /\ undefined_symbols = <<>>
    /\ canon' = [canon EXCEPT !.pc = "returned"]
    /\ UNCHANGED nonCanonVars

\* ------------------------------------------------------------------ merge_strings
MERGE_STRING_BUCKETS == 32
BucketIds == 0..(MERGE_STRING_BUCKETS - 1)

\* The byte values of the model; 0 is the null terminator.
Bytes == {0, 1, 2}
\* The longest merge-string section of an input object.
MaxSectionLen == 3
\* The input sections that go to the output section, in file order.
SectionIndexes == {1, 2}

\* crate::hash::hash_bytes: a function of the bytes alone (a polynomial hash).
RECURSIVE HashFrom(_, _)
HashFrom(h, bytes) ==
    IF bytes = <<>> THEN h ELSE HashFrom(h * 16 + Head(bytes) + 1, Tail(bytes))
hash_bytes(bytes) == HashFrom(0, bytes)

\* The bucket a string belongs to.
bucket_index(bytes) == hash_bytes(bytes) % MERGE_STRING_BUCKETS

\* memchr::memchr(needle, haystack): the 0-based index of the first occurrence.
memchr(needle, haystack) ==
    IF \E i \in 1..Len(haystack) : haystack[i] = needle
    THEN Some((CHOOSE i \in 1..Len(haystack) :
                  haystack[i] = needle /\ \A j \in 1..(i - 1) : haystack[j] # needle) - 1)
    ELSE None

\* StringToMerge::take_hashed: Err, or the string taken and the rest of the source.
\* (faulty variant: the terminator is left in the source)
take_hashed_without_terminator(source) ==
    LET found == memchr(0, source)
    IN IF ~IsSome(found) THEN [ok |-> FALSE, bytes |-> <<>>, rest |-> source]
       ELSE LET len == Unwrap(found)
            IN [ok |-> TRUE, bytes |-> SubSeq(source, 1, len),
                rest |-> SubSeq(source, len + 2, Len(source))]
take_hashed(source) ==
    LET found == memchr(0, source)
    IN IF ~IsSome(found) THEN [ok |-> FALSE, bytes |-> <<>>, rest |-> source]
       ELSE LET len == Unwrap(found) + 1
            IN [ok |-> TRUE, bytes |-> SubSeq(source, 1, len),
                rest |-> SubSeq(source, len + 1, Len(source))]

EmptyBuckets == [b \in BucketIds |-> <<>>]

\* The while loop of UnresolvedMergeStringsFileSection::new.
RECURSIVE ParseLoop(_, _)
ParseLoop(remaining, buckets) ==
    IF remaining = <<>> THEN [ok |-> TRUE, buckets |-> buckets]
    ELSE LET t == take_hashed(remaining)
         IN IF ~t.ok THEN [ok |-> FALSE, buckets |-> EmptyBuckets]
            ELSE ParseLoop(t.rest,
                           [buckets EXCEPT ![bucket_index(t.bytes)] = Append(@, t.bytes)])

\* UnresolvedMergeStringsFileSection::new
UnresolvedMergeStringsFileSection_new(data) == ParseLoop(data, EmptyBuckets)

\* MergeStringsSectionBucket::default()
EmptyBucket ==
    [strings |-> <<>>, next_offset |-> 0, totally_added |-> 0,
     totally_added_strings |-> 0, string_offsets |-> {}]

\* MergeStringsSectionBucket::get
bucket_get(bucket, string) ==
    IF \E e \in bucket.string_offsets : e.string = string
    THEN Some((CHOOSE e \in bucket.string_offsets : e.string = string).offset)
    ELSE None

\* The bucket offsets loop adding the length of bucket i itself
\* (faulty variant: bucket_offsets[i] = bucket_offsets[i - 1] + buckets[i].len()).
RECURSIVE BucketOffsetsLoopOwnLength(_, _, _)
BucketOffsetsLoopOwnLength(offsets, buckets, i) ==
    IF i >= MERGE_STRING_BUCKETS THEN offsets
    ELSE BucketOffsetsLoopOwnLength(
             [offsets EXCEPT ![i] = offsets[i - 1] + buckets[i].next_offset],
             buckets, i + 1)

\* for i in 1..MERGE_STRING_BUCKETS { bucket_offsets[i] = bucket_offsets[i - 1] + .. }
RECURSIVE BucketOffsetsLoop(_, _, _)
BucketOffsetsLoop(offsets, buckets, i) ==
    IF i >= MERGE_STRING_BUCKETS THEN offsets
    ELSE BucketOffsetsLoop(
             [offsets EXCEPT ![i] = offsets[i - 1] + buckets[i - 1].next_offset],
             buckets, i + 1)

\* MergeStringsSectionBucket::add_string with one next_offset for the whole
\* section (faulty variant: the buckets share the counter the offsets come from).
add_string_shared_counter(bucket, string) ==
    LET counted == [bucket EXCEPT !.totally_added = @ + Len(string),
                                  !.totally_added_strings = @ + 1]
        present == bucket_get(bucket, string)
        last == MERGE_STRING_BUCKETS - 1
        shared == BucketOffsetsLoop(merged.bucket_offsets, merged.buckets, 1)[last]
                      + merged.buckets[last].next_offset
    IN IF IsSome(present)
       THEN [bucket |-> counted, offset |-> Unwrap(present)]
       ELSE [bucket |-> [counted EXCEPT
                            !.next_offset = @ + Len(string),
                            !.strings = Append(@, string),
                            !.string_offsets =
                                @ \cup {[string |-> string, offset |-> shared]}],
             offset |-> shared]

\* MergeStringsSectionBucket::add_string: the bucket it leaves and the offset returned.
\* (faulty variant: a string already present is appended again)
add_string_no_dedup(bucket, string) ==
    [bucket |-> [strings |-> Append(bucket.strings, string),
                 next_offset |-> bucket.next_offset + Len(string),
                 totally_added |-> bucket.totally_added + Len(string),
                 totally_added_strings |-> bucket.totally_added_strings + 1,
                 string_offsets |->
                     {e \in bucket.string_offsets : e.string # string}
                     \cup {[string |-> string, offset |-> bucket.next_offset]}],
     offset |-> bucket.next_offset]
add_string(bucket, string) ==
    LET counted == [bucket EXCEPT !.totally_added = @ + Len(string),
                                  !.totally_added_strings = @ + 1]
        present == bucket_get(bucket, string)
    IN IF IsSome(present)
       THEN [bucket |-> counted, offset |-> Unwrap(present)]
       ELSE [bucket |-> [counted EXCEPT
                            !.next_offset = @ + Len(string),
                            !.strings = Append(@, string),
                            !.string_offsets =
                                @ \cup {[string |-> string, offset |-> bucket.next_offset]}],
             offset |-> bucket.next_offset]

\* MergeStringsSection::default()
EmptySection ==
    [buckets |-> [b \in BucketIds |-> EmptyBucket], bucket_offsets |-> [b \in BucketIds |-> 0]]

\* MergeStringsSection::get
section_get(sec, string) ==
    LET i == bucket_index(string)
        offset == bucket_get(sec.buckets[i], string)
    IN IF IsSome(offset) THEN Some(sec.bucket_offsets[i] + Unwrap(offset)) ELSE None

\* MergeStringsSection::len
section_len(sec) ==
    sec.bucket_offsets[MERGE_STRING_BUCKETS - 1]
        + sec.buckets[MERGE_STRING_BUCKETS - 1].next_offset

\* ResolvedObject::new builds the UnresolvedMergeStringsFileSection of an input
\* object; the objects are processed by the workers in any order.
ParseSection(i) ==
    /\ merge_pc = "parse"
    /\ parsed[i] = None
    /\ string_merge' = [string_merge EXCEPT
           !.parsed[i] = Some(UnresolvedMergeStringsFileSection_new(section_data[i]))]
    /\ UNCHANGED nonMergeVars

\* A section failed to parse: the object fails to load and nothing is merged.
ParseFailed ==
    /\ merge_pc = "parse"
    /\ \A i \in SectionIndexes : IsSome(parsed[i])
    /\ \E i \in SectionIndexes : ~Unwrap(parsed[i]).ok
    /\ string_merge' = [string_merge EXCEPT !.pc = "failed"]
    /\ UNCHANGED nonMergeVars

\* The strings of bucket b of the sections from index i on, in file order.
RECURSIVE Worklist(_, _)
Worklist(b, i) ==
    IF i \notin SectionIndexes THEN <<>>
    ELSE Unwrap(parsed[i]).buckets[b] \o Worklist(b, i + 1)

\* merge_strings, phase 1: the per-bucket worklist of the output section.
Gather ==
    /\ merge_pc = "parse"
    /\ \A i \in SectionIndexes : IsSome(parsed[i]) /\ Unwrap(parsed[i]).ok
    /\ string_merge' = [string_merge EXCEPT
           !.todo = [b \in BucketIds |-> Worklist(b, 1)],
           !.merged = EmptySection,
           !.pc = "merge"]
    /\ UNCHANGED nonMergeVars

\* merge_strings, phase 2: the task of bucket b adds its next string; the tasks of
\* different buckets run in parallel (par_bridge).
AddString(b) ==
    /\ merge_pc = "merge"
    /\ todo[b] # <<>>
    /\ LET string == Head(todo[b])
           r == add_string(merged.buckets[b], string)
       IN string_merge' = [string_merge EXCEPT
              !.merged = [merged EXCEPT !.buckets[b] = r.bucket],
              !.add_log = Append(add_log,
                  [bucket |-> b, string |-> string, offset |-> r.offset,
                   present |-> IsSome(bucket_get(merged.buckets[b], string)),
                   next_offset_before |-> merged.buckets[b].next_offset,
                   next_offset_after |-> r.bucket.next_offset,
                   strings_before |-> merged.buckets[b].strings,
                   strings_after |-> r.bucket.strings]),
              !.todo = [todo EXCEPT ![b] = Tail(@)]]
    /\ UNCHANGED nonMergeVars

\* merge_strings: every bucket task has finished; the bucket offsets are computed.
ComputeBucketOffsets ==
    /\ merge_pc = "merge"
    /\ \A b \in BucketIds : todo[b] = <<>>
    /\ string_merge' = [string_merge EXCEPT
           !.merged = [merged EXCEPT
                          !.bucket_offsets = BucketOffsetsLoop(merged.bucket_offsets,
                                                               merged.buckets, 1)],
           !.pc = "done"]
    /\ UNCHANGED nonMergeVars

\* ------------------------------------------------------------------ inputs
Ref(g, weak) == [target |-> Some(g), weak |-> weak]
Missing(weak) == [target |-> None, weak |-> weak]
Prelude == [kind |-> "Prelude", optional |-> FALSE, symbols |-> <<>>, fail_at |-> 0]
Epilogue == [kind |-> "Epilogue", optional |-> FALSE, symbols |-> <<>>, fail_at |-> 0]
Object(optional, symbols, fail_at) ==
    [kind |-> "Object", optional |-> optional, symbols |-> symbols, fail_at |-> fail_at]

\* The inputs the model is checked on: the prelude followed by three files, each
\* drawn from a short menu of objects (required or optional, with strong, weak
\* and unresolvable references, failing or not) or an epilogue.
FirstFiles ==
    { Epilogue,
      Object(FALSE, <<Ref(PRELUDE_FILE_ID, FALSE), Ref(3, FALSE)>>, 0),
      Object(FALSE, <<Ref(3, FALSE)>>, 2),
      Object(FALSE, <<Ref(2, FALSE), Missing(FALSE)>>, 0) }
SecondFiles ==
    { Epilogue,
      Object(FALSE, <<Ref(1, FALSE), Ref(3, FALSE)>>, 0),
      Object(FALSE, <<>>, 1),
      Object(TRUE, <<>>, 0) }
ThirdFiles ==
    { Epilogue,
      Object(TRUE, <<Ref(2, TRUE)>>, 0),
      Object(TRUE, <<Ref(2, FALSE)>>, 0),
      Object(TRUE, <<Ref(1, FALSE)>>, 2) }

Inputs ==
    { [f \in Files |-> CASE f = PRELUDE_FILE_ID -> Prelude
                         [] f = 1 -> a
                         [] f = 2 -> b
                         [] f = 3 -> c
                         [] OTHER -> Epilogue] :
        a \in FirstFiles, b \in SecondFiles, c \in ThirdFiles }

\* ================================================================== output-section part map
\* src/output_section_part_map.rs.  An Alignment is modelled by its exponent, an
\* AlignmentMap<T> by the sequence of its buckets in ascending alignment (bucket
\* of exponent e at index e + 1), and T by the naturals with Default = 0.
MaxAlignmentExp == 1
MaxCustom == 1

Exponents == 0..MaxAlignmentExp

\* The ids of the generated sections: merge_parts asserts that each one equals
\* the number of values pushed before it.
HEADERS == 0
SHSTRTAB == 1
SYMTAB == 2
STRTAB == 3
GOT == 4
PLT == 5
RELA_PLT == 6
NUM_GENERATED_SECTIONS == 7

\* output_section_id: the built-in regular sections follow the generated ones.
RODATA == NUM_GENERATED_SECTIONS
INIT_ARRAY == RODATA + 1
FINI_ARRAY == RODATA + 2
PREINIT_ARRAY == RODATA + 3
TEXT == RODATA + 4
INIT == RODATA + 5
FINI == RODATA + 6
DATA == RODATA + 7
TDATA == RODATA + 8
TBSS == RODATA + 9
BSS == RODATA + 10
NUM_BUILT_IN_SECTIONS == BSS + 1

\* OutputSectionId::min_alignment, on exponents.
min_alignment(id) ==
    IF id \in {SYMTAB, GOT, PLT, RELA_PLT, INIT_ARRAY, FINI_ARRAY, PREINIT_ARRAY}
    THEN 1 ELSE 0

\* Alignment::default()
AlignmentDefault == 0

\* T::default()
Default == 0

Min2(a, b) == IF a <= b THEN a ELSE b
Max2(a, b) == IF a >= b THEN a ELSE b

\* AlignmentMap::<T>::default()
AlignmentMapDefault == [k \in 1..(MaxAlignmentExp + 1) |-> Default]

\* AlignmentMap::iter: (alignment, &T) in ascending alignment.
iter(alignment_map) ==
    [k \in 1..Len(alignment_map) |-> [alignment |-> k - 1, value |-> alignment_map[k]]]

\* AlignmentMap::raw_values: the dense slice.
raw_values(alignment_map) == alignment_map

\* OutputSections::len
OutputSectionsLen(os) ==
    NUM_BUILT_IN_SECTIONS + Len(os.ro_custom) + Len(os.exec_custom)
        + Len(os.data_custom) + Len(os.bss_custom)

\* The fixed parts, in the order of the struct's fields.
FixedNames == <<"file_headers", "got", "plt", "symtab_locals", "symtab_globals",
                "symtab_strings", "shstrtab", "rela_plt">>

\* A part of a map: one of the fixed fields, or bucket `exponent` of regular[index].
Fixed(name) == [kind |-> "fixed", name |-> name, index |-> 0, exponent |-> 0]
Bucket(index, exponent) ==
    [kind |-> "regular", name |-> "", index |-> index, exponent |-> exponent]

PartGet(m, p) ==
    IF p.kind = "fixed" THEN m[p.name] ELSE m.regular[p.index + 1][p.exponent + 1]

PartSet(m, p, v) ==
    IF p.kind = "fixed" THEN [m EXCEPT ![p.name] = v]
    ELSE [m EXCEPT !.regular[p.index + 1][p.exponent + 1] = v]

\* OutputSectionPartMap::with_size
with_size(size) ==
    [regular |-> [i \in 1..(size - NUM_GENERATED_SECTIONS) |-> AlignmentMapDefault],
     file_headers |-> Default,
     got |-> Default,
     plt |-> Default,
     symtab_locals |-> Default,
     symtab_globals |-> Default,
     symtab_strings |-> Default,
     shstrtab |-> Default,
     rela_plt |-> Default]

\* (faulty variant: every fixed field counted as a section of its own)
len_fixed_fields(m) == Len(m.regular) + Len(FixedNames)

\* OutputSectionPartMap::len
len(m) == Len(m.regular) + NUM_GENERATED_SECTIONS

\* OutputSectionPartMap::resize: Vec::resize_with keeps the common prefix.
resize(m, num_sections) ==
    [m EXCEPT !.regular =
        [i \in 1..(num_sections - NUM_GENERATED_SECTIONS) |->
            IF i <= Len(m.regular) THEN m.regular[i] ELSE AlignmentMapDefault]]

\* OutputSectionPartMap::with_size(size)
WithSize ==
    /\ part_op = "with_size"
    /\ part_map' = [part_map EXCEPT !.self = with_size(part_size),
                                    !.op = "done_with_size"]
    /\ UNCHANGED nonPartVars

\* ------------------------------------------------------------------ output_order_map
\* One callback invocation on a fixed part: cb(id, id.min_alignment(), &self.<name>),
\* its result bound to the field of the same name.
CbFixed(id, name) ==
    <<[section_id |-> id, alignment |-> min_alignment(id), part |-> Fixed(name)]>>

\* map_alignment_map: the alignment of the first non-default bucket in reverse order.
max_alignment(alignment_map) ==
    LET populated == { k \in 1..Len(alignment_map) :
                         Rev(iter(alignment_map))[k].value # Default }
    IN  IF populated = {} THEN AlignmentDefault
        ELSE Rev(iter(alignment_map))[CHOOSE k \in populated :
                                          \A j \in populated : k <= j].alignment

\* (faulty variant: the lower bound is applied last, so that it wins)
map_alignment_map_min_last(alignment_map, output_section_id, offset) ==
    [k \in 1..Len(alignment_map) |->
        [section_id |-> output_section_id,
         alignment |-> Max2(min_alignment(output_section_id),
                            Min2(Rev(iter(alignment_map))[k].alignment,
                                 max_alignment(alignment_map))),
         part |-> Bucket(offset, Rev(iter(alignment_map))[k].alignment)]]

\* (faulty variant: the buckets are visited in ascending alignment)
map_alignment_map_forward(alignment_map, output_section_id, offset) ==
    [k \in 1..Len(alignment_map) |->
        [section_id |-> output_section_id,
         alignment |-> Min2(max_alignment(alignment_map),
                            Max2(iter(alignment_map)[k].alignment,
                                 min_alignment(output_section_id))),
         part |-> Bucket(offset, iter(alignment_map)[k].alignment)]]

\* map_alignment_map, called by map_regular with out[offset] as its destination:
\* the callback invocations in order, each stored at the alignment it came from.
map_alignment_map(alignment_map, output_section_id, offset) ==
    [k \in 1..Len(alignment_map) |->
        [section_id |-> output_section_id,
         alignment |-> Min2(max_alignment(alignment_map),
                            Max2(Rev(iter(alignment_map))[k].alignment,
                                 min_alignment(output_section_id))),
         part |-> Bucket(offset, Rev(iter(alignment_map))[k].alignment)]]

\* map_regular
map_regular(self, id) ==
    map_alignment_map(self.regular[id - NUM_GENERATED_SECTIONS + 1], id,
                      id - NUM_GENERATED_SECTIONS)

\* ids.iter().for_each(|id| self.map_regular(*id, ..))
RECURSIVE MapCustom(_, _)
MapCustom(self, ids) ==
    IF ids = <<>> THEN <<>>
    ELSE map_regular(self, Head(ids)) \o MapCustom(self, Tail(ids))

\* output_order_map: the callback invocations it makes, in order.
OutputOrderCalls(self, os) ==
    CbFixed(HEADERS, "file_headers")
    \o map_regular(self, RODATA)
    \o map_regular(self, INIT_ARRAY)
    \o map_regular(self, FINI_ARRAY)
    \o map_regular(self, PREINIT_ARRAY)
    \o CbFixed(SHSTRTAB, "shstrtab")
    \o CbFixed(SYMTAB, "symtab_locals")
    \o CbFixed(SYMTAB, "symtab_globals")
    \o CbFixed(STRTAB, "symtab_strings")
    \o CbFixed(RELA_PLT, "rela_plt")
    \o MapCustom(self, os.ro_custom)
    \o CbFixed(PLT, "plt")
    \o map_regular(self, TEXT)
    \o map_regular(self, INIT)
    \o map_regular(self, FINI)
    \o MapCustom(self, os.exec_custom)
    \o CbFixed(GOT, "got")
    \o map_regular(self, DATA)
    \o MapCustom(self, os.data_custom)
    \o map_regular(self, TDATA)
    \o map_regular(self, TBSS)
    \o map_regular(self, BSS)
    \o MapCustom(self, os.bss_custom)

\* The callback of output_order_map is any FnMut: the one used here returns the
\* number of the invocation, so that every returned value can be told apart.
CountingCallback(log) == Len(log) + 1

\* output_order_map: the next callback invocation.
OutputOrderCall ==
    /\ part_op = "output_order_map"
    /\ part_pc <= Len(part_calls)
    /\ LET call == part_calls[part_pc]
       IN  part_map' = [part_map EXCEPT
               !.cb_log = Append(cb_log,
                   [section_id |-> call.section_id,
                    alignment |-> call.alignment,
                    value |-> PartGet(part_self, call.part),
                    part |-> call.part,
                    returned |-> CountingCallback(cb_log)]),
               !.out = PartSet(part_out, call.part, CountingCallback(cb_log)),
               !.pc = part_pc + 1]
    /\ UNCHANGED nonPartVars

\* output_order_map: the new map is returned.
OutputOrderReturn ==
    /\ part_op = "output_order_map"
    /\ part_pc > Len(part_calls)
    /\ part_map' = [part_map EXCEPT !.op = "done_output_order_map"]
    /\ UNCHANGED nonPartVars

\* ------------------------------------------------------------------ merge_parts
\* (faulty variant: SYMTAB is given its locals only)
MergePartsCallsLocalsOnly(self) ==
    <<  <<Fixed("file_headers")>>,
        <<Fixed("shstrtab")>>,
        <<Fixed("symtab_locals")>>,
        <<Fixed("symtab_strings")>>,
        <<Fixed("got")>>,
        <<Fixed("plt")>>,
        <<Fixed("rela_plt")>>  >>
    \o [i \in 1..Len(self.regular) |->
          [k \in 1..Len(raw_values(self.regular[i])) |-> Bucket(i - 1, k - 1)]]

\* merge_parts: the slices its callback is invoked with, in order, each slice as
\* the parts it is made of.
MergePartsCalls(self) ==
    <<  <<Fixed("file_headers")>>,
        <<Fixed("shstrtab")>>,
        <<Fixed("symtab_locals"), Fixed("symtab_globals")>>,
        <<Fixed("symtab_strings")>>,
        <<Fixed("got")>>,
        <<Fixed("plt")>>,
        <<Fixed("rela_plt")>>  >>
    \o [i \in 1..Len(self.regular) |->
          [k \in 1..Len(raw_values(self.regular[i])) |-> Bucket(i - 1, k - 1)]]

\* The callback of the tests: |values| values.iter().sum()
RECURSIVE Sum(_)
Sum(values) == IF values = <<>> THEN 0 ELSE Head(values) + Sum(Tail(values))

\* merge_parts: the next callback invocation; its result is pushed to values_out.
MergePartsCall ==
    /\ part_op = "merge_parts"
    /\ part_pc <= Len(part_calls)
    /\ LET parts == part_calls[part_pc]
           values == [k \in 1..Len(parts) |-> PartGet(part_self, parts[k])]
       IN  part_map' = [part_map EXCEPT
               !.cb_log = Append(cb_log, [parts |-> parts, values |-> values,
                                          returned |-> Sum(values)]),
               !.values_out = Append(values_out, Sum(values)),
               !.pc = part_pc + 1]
    /\ UNCHANGED nonPartVars

\* merge_parts: OutputSectionMap::from_values(values_out)
MergePartsReturn ==
    /\ part_op = "merge_parts"
    /\ part_pc > Len(part_calls)
    /\ part_map' = [part_map EXCEPT !.op = "done_merge_parts"]
    /\ UNCHANGED nonPartVars

\* ------------------------------------------------------------------ mut_with_map
\* AlignmentMap::mut_zip: the buckets of both maps, paired by alignment.
mut_zip(index, t, u) ==
    [k \in 1..Min2(Len(t), Len(u)) |->
        [self_part |-> Bucket(index, k - 1), other_part |-> Bucket(index, k - 1)]]

\* self.regular.iter_mut().zip(other.regular.iter()).map(|(t, u)| t.mut_zip(u)...)
RECURSIVE ZipRegular(_, _, _)
ZipRegular(self, other, i) ==
    IF i > Len(self.regular) \/ i > Len(other.regular) THEN <<>>
    ELSE mut_zip(i - 1, self.regular[i], other.regular[i]) \o ZipRegular(self, other, i + 1)

ZipFixed(self_name, other_name) ==
    <<[self_part |-> Fixed(self_name), other_part |-> Fixed(other_name)]>>

\* (faulty variant: got is paired with the plt of other)
MutWithMapCallsCrossed(self, other) ==
    ZipRegular(self, other, 1)
    \o ZipFixed("file_headers", "file_headers")
    \o ZipFixed("got", "plt")
    \o ZipFixed("plt", "plt")
    \o ZipFixed("symtab_locals", "symtab_locals")
    \o ZipFixed("symtab_globals", "symtab_globals")
    \o ZipFixed("symtab_strings", "symtab_strings")
    \o ZipFixed("shstrtab", "shstrtab")
    \o ZipFixed("rela_plt", "rela_plt")

\* mut_with_map: the pairs its callback is invoked with, in order.
MutWithMapCalls(self, other) ==
    ZipRegular(self, other, 1)
    \o ZipFixed("file_headers", "file_headers")
    \o ZipFixed("got", "got")
    \o ZipFixed("plt", "plt")
    \o ZipFixed("symtab_locals", "symtab_locals")
    \o ZipFixed("symtab_globals", "symtab_globals")
    \o ZipFixed("symtab_strings", "symtab_strings")
    \o ZipFixed("shstrtab", "shstrtab")
    \o ZipFixed("rela_plt", "rela_plt")

\* mut_with_map with the callback of the test, |a, b| *a += *b: the next invocation.
MutWithMapCall ==
    /\ part_op = "mut_with_map"
    /\ part_pc <= Len(part_calls)
    /\ LET call == part_calls[part_pc]
       IN  part_map' = [part_map EXCEPT
               !.cb_log = Append(cb_log, call),
               !.self = PartSet(part_self, call.self_part,
                                PartGet(part_self, call.self_part)
                                    + PartGet(part_other, call.other_part)),
               !.pc = part_pc + 1]
    /\ UNCHANGED nonPartVars

\* mut_with_map: the map of the callback's results (of type unit here) is returned.
MutWithMapReturn ==
    /\ part_op = "mut_with_map"
    /\ part_pc > Len(part_calls)
    /\ part_map' = [part_map EXCEPT !.op = "done_mut_with_map"]
    /\ UNCHANGED nonPartVars

\* ------------------------------------------------------------------ merge
\* AlignmentMap::merge: bucket by bucket.
alignment_map_merge(left, right) ==
    [k \in 1..Len(left) |-> IF k <= Len(right) THEN left[k] + right[k] ELSE left[k]]

\* (faulty variant: self is not grown to the length of rhs)
merge_without_resize(self, rhs) ==
    [regular |-> [i \in 1..Len(self.regular) |->
                    IF i <= Len(rhs.regular)
                    THEN alignment_map_merge(self.regular[i], rhs.regular[i])
                    ELSE self.regular[i]],
     file_headers |-> self.file_headers + rhs.file_headers,
     got |-> self.got + rhs.got,
     plt |-> self.plt + rhs.plt,
     symtab_locals |-> self.symtab_locals + rhs.symtab_locals,
     symtab_globals |-> self.symtab_globals + rhs.symtab_globals,
     symtab_strings |-> self.symtab_strings + rhs.symtab_strings,
     shstrtab |-> self.shstrtab + rhs.shstrtab,
     rela_plt |-> self.rela_plt + rhs.rela_plt]

\* OutputSectionPartMap::merge: self after the call.
merge(self, rhs) ==
    LET resized == IF len(self) < len(rhs) THEN resize(self, len(rhs)) ELSE self
    IN  [regular |-> [i \in 1..Len(resized.regular) |->
                        IF i <= Len(rhs.regular)
                        THEN alignment_map_merge(resized.regular[i], rhs.regular[i])
                        ELSE resized.regular[i]],
         file_headers |-> resized.file_headers + rhs.file_headers,
         got |-> resized.got + rhs.got,
         plt |-> resized.plt + rhs.plt,
         symtab_locals |-> resized.symtab_locals + rhs.symtab_locals,
         symtab_globals |-> resized.symtab_globals + rhs.symtab_globals,
         symtab_strings |-> resized.symtab_strings + rhs.symtab_strings,
         shstrtab |-> resized.shstrtab + rhs.shstrtab,
         rela_plt |-> resized.rela_plt + rhs.rela_plt]

\* self.merge(&rhs)
Merge ==
    /\ part_op = "merge"
    /\ part_map' = [part_map EXCEPT !.self = merge(part_self, part_other),
                                    !.op = "done_merge"]
    /\ UNCHANGED nonPartVars

\* ================================================================== ResolvedObject::new
\* resolve_sections for the input sections of one object, followed by the
\* assignment of part ids to its custom sections.  An input section is given by
\* what UnloadedSection::from_section returns for it, the retain bit of its own
\* flags and, for a string-merge section, its bytes.
MaxSections == 2

DEBUG_PREFIX == <<".", "d", "e", "b", "u", "g", "_">>
DebugName == DEBUG_PREFIX \o <<"x">>

\* <[u8]>::starts_with
starts_with(bytes, prefix) ==
    Len(bytes) >= Len(prefix) /\ SubSeq(bytes, 1, Len(prefix)) = prefix

\* PartId: the placeholder, the part of a built-in section, or the part later
\* assigned to a custom section.
CUSTOM_PLACEHOLDER == [kind |-> "placeholder", id |-> 0]
BuiltInPart(id) == [kind |-> "built_in", id |-> id]
CustomPart(id) == [kind |-> "custom", id |-> id]
NoPart == [kind |-> "none", id |-> 0]

\* TemporaryPartId; `retain` of a built-in part is
\* id.output_section_id().built_in_details().section_flags.should_retain().
Custom(name) == [kind |-> "Custom", name |-> name, part |-> NoPart, retain |-> FALSE]
BuiltIn(id, retain) ==
    [kind |-> "BuiltIn", name |-> <<>>, part |-> BuiltInPart(id), retain |-> retain]
EhFrame == [kind |-> "EhFrameData", name |-> <<>>, part |-> NoPart, retain |-> FALSE]

\* SectionSlot
Slot(kind, part_id, index) == [kind |-> kind, part_id |-> part_id, index |-> index]
Discard == Slot("Discard", NoPart, 0)

\* The guard of the first match arm: the flags of the built-in output section.
\* (faulty variant: the flags of the input section are tested)
should_retain_input_section(unloaded, section_flags) == section_flags.should_retain
should_retain_built_in(unloaded, section_flags) == unloaded.part_id.retain

\* A debug section that is stripped: custom_section = None
\* (faulty variant: the record is kept)
stripped_keeping_record(custom_section) == custom_section
stripped(custom_section) == None

\* resolve_sections: the match on unloaded.part_id of a section that is not a
\* string-merge section; the slot, and what is left of custom_section.
dispatch(unloaded, section_flags, custom_section, index, strip_debug) ==
    CASE unloaded.part_id.kind = "BuiltIn" ->
            [slot |-> IF should_retain_built_in(unloaded, section_flags)
                      THEN Slot("MustLoad", unloaded.part_id.part, 0)
                      ELSE Slot("Unloaded", unloaded.part_id.part, 0),
             custom_section |-> custom_section]
      [] unloaded.part_id.kind = "Custom" ->
            IF starts_with(unloaded.part_id.name, DEBUG_PREFIX)
            THEN IF strip_debug
                 THEN [slot |-> Discard, custom_section |-> stripped(custom_section)]
                 ELSE [slot |-> Slot("UnloadedDebugInfo", CUSTOM_PLACEHOLDER, 0),
                       custom_section |-> custom_section]
            ELSE IF section_flags.should_retain
                 THEN [slot |-> Slot("MustLoad", CUSTOM_PLACEHOLDER, 0),
                       custom_section |-> custom_section]
                 ELSE [slot |-> Slot("Unloaded", CUSTOM_PLACEHOLDER, 0),
                       custom_section |-> custom_section]
      [] OTHER ->
            [slot |-> Slot("EhFrameData", NoPart, index),
             custom_section |-> custom_section]

\* resolve_sections: the closure applied to one input section.  `ok` is FALSE
\* when it returns Err (the bytes of a string-merge section do not parse).
resolve_section(input_section, index, strip_debug) ==
    IF ~IsSome(input_section.unloaded)
    THEN [ok |-> TRUE, slot |-> Discard, custom_section |-> None, merge_strings |-> None]
    ELSE LET unloaded == Unwrap(input_section.unloaded)
             section_flags == input_section.section_flags
             part_id == IF unloaded.part_id.kind = "BuiltIn" THEN unloaded.part_id.part
                        ELSE CUSTOM_PLACEHOLDER
             custom_section ==
                 IF unloaded.part_id.kind = "Custom"
                 THEN Some([name |-> unloaded.part_id.name,
                            section_flags |-> section_flags, index |-> index])
                 ELSE None
         IN  IF unloaded.is_string_merge
             THEN LET new == UnresolvedMergeStringsFileSection_new(input_section.section_data)
                  IN  IF ~new.ok
                      THEN [ok |-> FALSE, slot |-> Discard, custom_section |-> None,
                            merge_strings |-> None]
                      ELSE [ok |-> TRUE, slot |-> Slot("MergeStrings", part_id, 0),
                            custom_section |-> custom_section,
                            merge_strings |-> Some([section_index |-> index,
                                                    buckets |-> new.buckets])]
             ELSE LET d == dispatch(unloaded, section_flags, custom_section, index,
                                    strip_debug)
                  IN  [ok |-> TRUE, slot |-> d.slot, custom_section |-> d.custom_section,
                       merge_strings |-> None]

\* SectionSlot::set_part_id: Discard and EhFrameData are todo!()
set_part_id(slot, part_id) ==
    IF slot.kind \in {"Discard", "EhFrameData"} THEN [ok |-> FALSE, slot |-> slot]
    ELSE [ok |-> TRUE, slot |-> [slot EXCEPT !.part_id = part_id]]

\* resolve_sections: the next input section.
ResolveSection ==
    /\ object.op = "resolve_sections"
    /\ object.index < Len(object.input)
    /\ LET r == resolve_section(object.input[object.index + 1], object.index,
                                object.strip_debug)
       IN  IF ~r.ok
           THEN object' = [object EXCEPT !.op = "failed_resolve_sections"]
           ELSE object' = [object EXCEPT
                   !.sections = Append(@, r.slot),
                   !.custom_sections = @ \o r.custom_section,
                   !.merge_strings_out = @ \o r.merge_strings,
                   !.index = @ + 1]
    /\ UNCHANGED nonObjectVars

\* resolve_sections: Ok(sections)
ResolveSectionsReturn ==
    /\ object.op = "resolve_sections"
    /\ object.index = Len(object.input)
    /\ object' = [object EXCEPT !.op = "add_sections"]
    /\ UNCHANGED nonObjectVars

\* assign_section_ids: add_sections(&custom_sections, sections) gives the slot
\* of the next custom section the part id of its output section.
SetPartId ==
    /\ object.op = "add_sections"
    /\ Len(object.assigned) < Len(object.custom_sections)
    /\ LET custom == object.custom_sections[Len(object.assigned) + 1]
           r == set_part_id(object.sections[custom.index + 1],
                            CustomPart(Len(object.assigned) + 1))
       IN  IF ~r.ok
           THEN object' = [object EXCEPT !.op = "panicked_add_sections",
                                         !.assigned = Append(@, custom.index)]
           ELSE object' = [object EXCEPT
                   !.sections[custom.index + 1] = r.slot,
                   !.assigned = Append(@, custom.index)]
    /\ UNCHANGED nonObjectVars

\* assign_section_ids: every custom section of the object has its part id.
AddSectionsReturn ==
    /\ object.op = "add_sections"
    /\ Len(object.assigned) = Len(object.custom_sections)
    /\ object' = [object EXCEPT !.op = "done_add_sections"]
    /\ UNCHANGED nonObjectVars

\* ------------------------------------------------------------------ resolve_symbols
\* resolve_symbols for the symbol table of one object.  A SymbolId is given by
\* the file that owns it and its index in that file's symbol table (what
\* symbol_id_range and file_id_for_symbol compute); the undefined SymbolId is
\* symbol zero of the prelude.
MaxSymbols == 2

SymbolIdOf(file, index) == [file |-> file, index |-> index]
UndefinedSymbolId == SymbolIdOf(PRELUDE_FILE_ID, 0)

\* SymbolId::is_undefined
is_undefined(symbol_id) == symbol_id = UndefinedSymbolId

\* resolve_symbol: the early return.
\* (faulty variant: symbol zero is not skipped)
skip_defined_only(definition_out, local_symbol_index) == ~is_undefined(definition_out)
skip(definition_out, local_symbol_index) ==
    ~is_undefined(definition_out) \/ local_symbol_index = 0

\* resolve_symbol: symbol_file_id != obj.file_id && !local_symbol.is_weak()
\* (faulty variant: a weak reference requests the file as well)
must_request_weak_too(symbol_file_id, obj_file_id, local_symbol) ==
    symbol_file_id # obj_file_id
must_request(symbol_file_id, obj_file_id, local_symbol) ==
    symbol_file_id # obj_file_id /\ ~local_symbol.is_weak

\* resolve_symbol: else if symbol_file_id != PRELUDE_FILE_ID
\* (faulty variant: a symbol of the prelude is registered as well)
may_be_unloaded_any(symbol_file_id) == TRUE
may_be_unloaded(symbol_file_id) == symbol_file_id # PRELUDE_FILE_ID

\* resolve_symbol: the new *definition_out, the file given to request_file_id
\* and the record pushed to undefined_symbols_out, if any.
resolve_symbol(local_symbol_index, local_symbol, definition_out, obj_file_id, global_names) ==
    IF skip(definition_out, local_symbol_index)
    THEN [definition |-> definition_out, request |-> None, undefined |-> None]
    ELSE LET found == global_names[local_symbol.name]
             id == SymbolIdOf(obj_file_id, local_symbol_index)
         IN  IF IsSome(found)
             THEN LET symbol_id == Unwrap(found)
                      symbol_file_id == symbol_id.file
                  IN  IF must_request(symbol_file_id, obj_file_id, local_symbol)
                      THEN [definition |-> symbol_id, request |-> Some(symbol_file_id),
                            undefined |-> None]
                      ELSE IF may_be_unloaded(symbol_file_id)
                      THEN [definition |-> symbol_id, request |-> None,
                            undefined |-> Some([ignore_if_loaded |-> Some(symbol_file_id),
                                                name |-> local_symbol.name,
                                                symbol_id |-> id])]
                      ELSE [definition |-> symbol_id, request |-> None, undefined |-> None]
             ELSE [definition |-> definition_out, request |-> None,
                   undefined |-> Some([ignore_if_loaded |-> None,
                                       name |-> local_symbol.name,
                                       symbol_id |-> id])]

\* resolve_symbols: resolve_symbol for the next entry of the symbol table.
ResolveSymbolEntry ==
    /\ object.op = "resolve_symbols"
    /\ object.index < Len(object.symbols)
    /\ LET r == resolve_symbol(object.index, object.symbols[object.index + 1],
                               object.definitions_out[object.index + 1],
                               object.file_id, object.global_names)
       IN  object' = [object EXCEPT
               !.definitions_out[object.index + 1] = r.definition,
               !.requests = @ \o [k \in 1..Len(r.request) |->
                                    [index |-> object.index, file |-> r.request[k]]],
               !.undefined_symbols_out = @ \o r.undefined,
               !.index = @ + 1]
    /\ UNCHANGED nonObjectVars

\* resolve_symbols: Ok(())
ResolveSymbolsReturn ==
    /\ object.op = "resolve_symbols"
    /\ object.index = Len(object.symbols)
    /\ object' = [object EXCEPT !.op = "done_resolve_symbols"]
    /\ UNCHANGED nonObjectVars

\* ------------------------------------------------------------------ resolve_symbols_and_sections
\* The passes of resolve_symbols_and_sections, in the order of its statements.
\* (faulty variant: the selector of alternatives before merge_strings and the
\* canonicaliser)
PassOrderSelectorFirst ==
    << "resolve_symbols_in_files", "assign_section_ids",
       "resolve_alternative_symbol_definitions", "merge_strings",
       "canonicalise_undefined_symbols" >>
PassOrder ==
    << "resolve_symbols_in_files", "assign_section_ids", "merge_strings",
       "canonicalise_undefined_symbols", "resolve_alternative_symbol_definitions" >>

\* The statement of resolve_symbols_and_sections being executed is the call of
\* the pass `name`.
Running(name) ==
    /\ passes # None
    /\ passes.status = "running"
    /\ passes.pc <= Len(PassOrder)
    /\ PassOrder[passes.pc] = name

\* The pass returns: with `?`, Err leaves resolve_symbols_and_sections at once.
PassReturns(name, ok) ==
    IF ok THEN [passes EXCEPT !.pc = @ + 1, !.ran = Append(@, name)]
    ELSE [passes EXCEPT !.status = "err", !.ran = Append(@, name)]

\* One call symbol_db.replace_definition(symbol_id, to) made by the pass `by`.
Call(by, symbol_id, to) == [by |-> by, symbol_id |-> symbol_id, to |-> to]

\* resolve_symbols_in_files(groups, symbol_db, herd)?
ResolveSymbolsInFiles ==
    /\ Running("resolve_symbols_in_files")
    /\ passes' = PassReturns("resolve_symbols_in_files",
                             passes.fails # Some("resolve_symbols_in_files"))
    /\ UNCHANGED nonPassVars

\* assign_section_ids(&mut groups, symbol_db.args)?
AssignSectionIds ==
    /\ Running("assign_section_ids")
    /\ passes' = PassReturns("assign_section_ids", passes.fails # Some("assign_section_ids"))
    /\ UNCHANGED nonPassVars

\* merge_strings(&mut groups, &output_sections)?
MergeStrings ==
    /\ Running("merge_strings")
    /\ passes' = PassReturns("merge_strings", passes.fails # Some("merge_strings"))
    /\ UNCHANGED nonPassVars

\* The id canonicalise_undefined_symbols gives the i-th record: the id of the
\* first record of that name (Vacant installs it, Occupied finds it).
canonical_of(undefined, i) ==
    LET same == { k \in 1..i : undefined[k].name = undefined[i].name }
    IN  undefined[CHOOSE k \in same : \A l \in same : k <= l].symbol_id

\* canonicalise_undefined_symbols(undefined_symbols, ..)?: for records that are
\* not skipped and whose names are no start/stop names, one replace_definition
\* each.
CanonicaliseUndefinedSymbols ==
    /\ Running("canonicalise_undefined_symbols")
    /\ LET u == passes.undefined_symbols
       IN  passes' = [PassReturns("canonicalise_undefined_symbols", TRUE) EXCEPT
               !.calls = @ \o [i \in 1..Len(u) |->
                                 Call("canonicalise_undefined_symbols",
                                      u[i].symbol_id, canonical_of(u, i))]]
    /\ UNCHANGED nonPassVars

\* symbol_id.is_undefined() for the entries of alternative_definitions: the
\* chain ends at the entry that names no symbol.
ends_chain(symbol_id) == symbol_id \notin SymbolIds

\* (faulty variant: only the first alternative is taken off the chain)
follow_once(previous_definitions, symbol_id) ==
    IF ends_chain(previous_definitions[symbol_id]) THEN <<>>
    ELSE <<previous_definitions[symbol_id]>>

\* resolve_alternative_symbol_definitions: the loop that fills `alternatives`.
RECURSIVE follow(_, _)
follow(previous_definitions, symbol_id) ==
    IF ends_chain(previous_definitions[symbol_id]) THEN <<>>
    ELSE <<previous_definitions[symbol_id]>>
            \o follow(previous_definitions, previous_definitions[symbol_id])

\* resolve_alternative_symbol_definitions: one turn of `for first in
\* symbols_with_alternatives`.
ResolveAlternative ==
    /\ Running("resolve_alternative_symbol_definitions")
    /\ passes.symbols_with_alternatives # <<>>
    /\ LET head == Head(passes.symbols_with_alternatives)
           alts == follow(passes.previous_definitions, head)
           sel == select_symbol(head, alts, resolved)
       IN  passes' = [passes EXCEPT
               !.symbols_with_alternatives = Tail(@),
               !.calls = @ \o <<Call("resolve_alternative_symbol_definitions", head, sel)>>
                           \o [i \in 1..Len(alts) |->
                                 Call("resolve_alternative_symbol_definitions", alts[i], sel)]]
    /\ UNCHANGED nonPassVars

\* resolve_alternative_symbol_definitions: Ok(())
ResolveAlternativesReturn ==
    /\ Running("resolve_alternative_symbol_definitions")
    /\ passes.symbols_with_alternatives = <<>>
    /\ passes' = PassReturns("resolve_alternative_symbol_definitions", TRUE)
    /\ UNCHANGED nonPassVars

\* resolve_symbols_and_sections: the prelude takes its place in groups and
\* Ok(ResolutionOutputs) is returned.
ResolutionReturn ==
    /\ passes # None
    /\ passes.status = "running"
    /\ passes.pc = Len(PassOrder) + 1
    /\ passes' = [passes EXCEPT !.status = "ok", !.prelude = TRUE]
    /\ UNCHANGED nonPassVars

\* ------------------------------------------------------------------ ValueFlags
\* bitflags! struct ValueFlags: u8.  A value is the number its bits make.
ValueFlagsWidth == 8
CAN_BYPASS_GOT == 16

\* The bits of a and b joined / intersected, over the n lowest bits.
RECURSIVE bitor(_, _, _)
bitor(a, b, n) ==
    IF n = 0 THEN 0
    ELSE (IF a % 2 = 1 \/ b % 2 = 1 THEN 1 ELSE 0) + 2 * bitor(a \div 2, b \div 2, n - 1)
RECURSIVE bitand(_, _, _)
bitand(a, b, n) ==
    IF n = 0 THEN 0
    ELSE (IF a % 2 = 1 /\ b % 2 = 1 THEN 1 ELSE 0) + 2 * bitand(a \div 2, b \div 2, n - 1)

\* ValueFlags::contains
contains(self, other) == bitand(self, other, ValueFlagsWidth) = other

\* (faulty variant: every bit of other is ORed in)
ValueFlags_merge_all(self, other) == bitor(self, other, ValueFlagsWidth)
\* ValueFlags::merge
ValueFlags_merge(self, other) ==
    IF contains(other, CAN_BYPASS_GOT)
    THEN bitor(self, CAN_BYPASS_GOT, ValueFlagsWidth)
    ELSE self

\* How often the same merge is applied.
MaxMerges == 2

\* self.merge(other)
MergeFlags ==
    /\ value_flags # None
    /\ Len(value_flags.results) < MaxMerges
    /\ value_flags' = [value_flags EXCEPT
           !.self = ValueFlags_merge(value_flags.self, value_flags.other),
           !.results = Append(@, ValueFlags_merge(value_flags.self, value_flags.other))]
    /\ UNCHANGED nonFlagVars

\* No part map exists.
NoPartMap == part_map = None

\* No object is being resolved.
NoObject == object = None

\* resolve_symbols_and_sections is not running.
NoPasses == passes = None

\* No ValueFlags is being merged into.
NoFlags == value_flags = None

\* The state of the work driver before resolve_symbols_in_files runs.
DriverInit ==
    /\ main_pc = "setup"
    /\ definitions_per_file = [f \in Files |-> FALSE]
    /\ work_queue = <<>>
    /\ idle_threads = None
    /\ done = FALSE
    /\ loaded = <<>>
    /\ errors = <<>>
    /\ num_objects = 0
    /\ result = None
    /\ db_calls = <<>>
    /\ pc = [t \in Threads |-> "unspawned"]
    /\ idle = [t \in Threads |-> FALSE]
    /\ work_item = [t \in Threads |-> None]
    /\ sym_index = [t \in Threads |-> 0]
    /\ popped = [t \in Threads |-> None]
    /\ park_token = [t \in Threads |-> FALSE]
    /\ processed = [f \in Files |-> 0]
    /\ requested = {}
    /\ error_log = <<>>

\* No name with alternatives is being resolved.
NoSelection ==
    /\ symbol_db = [s \in SymbolIds |->
                      [weak |-> FALSE, common |-> FALSE, size |-> 0, dynamic |-> FALSE]]
    /\ first = 1
    /\ alternatives = <<>>
    /\ selected = None

\* canonicalise_undefined_symbols is not running.
NoCanon == canon = None

\* No strings are being merged: there are no input sections and no output section.
NoMerge == string_merge = None

Init ==
    /\ groups \in Inputs
    /\ num_threads \in 1..MaxThreads
    /\ resolved = [f \in Files |-> "NotLoaded"]
    /\ DriverInit
    /\ NoSelection
    /\ NoCanon
    /\ NoMerge
    /\ NoPartMap
    /\ NoObject
    /\ NoPasses
    /\ NoFlags

Next ==
    \/ Setup
    \/ Return
    \/ \E t \in Threads : CheckDone(t)
    \/ \E t \in Threads : PopWorkSome(t)
    \/ \E t \in Threads : PopWorkNone(t)
    \/ \E t \in Threads : ProcessNotObject(t)
    \/ \E t \in Threads : ProcessFail(t)
    \/ \E t \in Threads : ResolveSymbol(t)
    \/ \E t \in Threads : PushWork(t)
    \/ \E t \in Threads : PopIdle(t)
    \/ \E t \in Threads : Unpark(t)
    \/ \E t \in Threads : ProcessDone(t)
    \/ \E t \in Threads : PushIdle(t)
    \/ \E t \in Threads : StoreDone(t)
    \/ \E t \in Threads : DrainIdle(t)
    \/ \E t \in Threads : UnparkDrained(t)
    \/ \E t \in Threads : Park(t)

Spec == Init /\ [][Next]_vars

\* The operating system keeps scheduling: while some thread (the main thread, or
\* a worker that is not blocked in park()) can take a step, a step is eventually
\* taken.  Nothing is assumed about which thread it is.
Fairness == WF_vars(Next)

FairSpec == Init /\ [][Next]_vars /\ Fairness

\* ------------------------------------------------------------------ the driver and the final outputs
\* resolve_symbols_in_files followed by the end of resolve_symbols_and_sections.
OutputsNext ==
    \/ Next
    \/ InstallPrelude

OutputsSpec == Init /\ [][OutputsNext]_vars

\* ------------------------------------------------------------------ selection alone
\* select_symbol as a function: every assignment of strengths and DYNAMIC flags
\* to the definitions of one name, every chain of alternatives, and every set of
\* loaded files.
MaxAlternatives == 2

Definitions ==
    { [weak |-> w, common |-> c, size |-> IF c THEN n ELSE 0, dynamic |-> d] :
        w \in BOOLEAN, c \in BOOLEAN, n \in 1..MaxSize, d \in BOOLEAN }

\* The sequences without repetition of at most n elements of S.
RECURSIVE Chains(_, _)
Chains(S, n) ==
    IF n = 0 THEN {<<>>}
    ELSE {<<>>} \cup UNION { { <<x>> \o c : c \in Chains(S \ {x}, n - 1) } : x \in S }

SelectInit ==
    /\ groups = [f \in Files |-> IF f = PRELUDE_FILE_ID THEN Prelude
                                  ELSE Object(TRUE, <<>>, 0)]
    /\ num_threads = 1
    /\ resolved \in [Files -> {"NotLoaded", "Object"}]
    /\ resolved[PRELUDE_FILE_ID] = "NotLoaded"
    /\ DriverInit
    /\ symbol_db \in [SymbolIds -> Definitions]
    \* symbol_strength reads weak, common and size of a loaded object only: they
    \* are left at one value for the others.
    /\ \A s \in SymbolIds :
          resolved[file_id_for_symbol(s)] # "Object" =>
              ~symbol_db[s].weak /\ ~symbol_db[s].common
    /\ first = 1
    /\ alternatives \in Chains(SymbolIds \ {first}, MaxAlternatives)
    /\ selected = None
    /\ NoCanon
    /\ NoMerge
    /\ NoPartMap
    /\ NoObject
    /\ NoPasses
    /\ NoFlags

SelectNext == SelectSymbol

SelectSpec == SelectInit /\ [][SelectNext]_vars

\* ------------------------------------------------------------------ canonicalisation alone
\* canonicalise_undefined_symbols on every queue of at most MaxUndefined records:
\* every choice of names and of ignore_if_loaded, every order of pushing, and
\* every state of the file the records may name.
\* The work driver is not running and resolved holds what it returned.
DriverUnused ==
    /\ groups = [f \in Files |-> IF f = PRELUDE_FILE_ID THEN Prelude
                                  ELSE Object(TRUE, <<>>, 0)]
    /\ num_threads = 1
    /\ DriverInit

\* The file an UndefinedSymbol may name in ignore_if_loaded.
IgnoreFile == PRELUDE_FILE_ID + 1

\* What a record holds besides its symbol id.
UndefinedAttributes ==
    { [ignore_if_loaded |-> i, name |-> n] :
        i \in {None, Some(IgnoreFile)}, n \in CanonNames }

\* The queues the workers can leave: each symbol id at most once, in any order.
UndefinedQueues ==
    UNION { { [i \in 1..Len(ids) |->
                 [ignore_if_loaded |-> a[i].ignore_if_loaded, name |-> a[i].name,
                  symbol_id |-> ids[i]]] :
              a \in [1..Len(ids) -> UndefinedAttributes] } :
            ids \in Chains(UndefinedIds, MaxUndefined) }

CanonInit ==
    /\ DriverUnused
    /\ NoSelection
    /\ resolved \in { [f \in Files |-> IF f = IgnoreFile THEN r ELSE "NotLoaded"] :
                        r \in {"NotLoaded", "Object", "Epilogue"} }
    /\ \E queue \in UndefinedQueues :
          canon = [undefined_queue |-> queue,
                   undefined_symbols |-> <<>>,
                   pc |-> "start",
                   name_to_id |-> [n \in CanonNames |-> None],
                   custom_start_stop_defs |-> <<>>,
                   definitions |-> [i \in UndefinedIds |-> 0],
                   num_symbols |-> MaxUndefined,
                   start_stop_calls |-> <<>>,
                   skipped |-> {}]
    /\ NoMerge
    /\ NoPartMap
    /\ NoObject
    /\ NoPasses
    /\ NoFlags

CanonNext ==
    \/ CollectAndSort
    \/ CanonicaliseRecord
    \/ CanonReturn

CanonSpec == CanonInit /\ [][CanonNext]_vars

\* ------------------------------------------------------------------ string merging alone
\* Every pair of input sections of at most MaxSectionLen bytes: parsed, gathered,
\* merged bucket by bucket in every interleaving, and laid out.
SectionData == UNION { [1..n -> Bytes] : n \in 0..MaxSectionLen }

MergeInit ==
    /\ DriverUnused
    /\ resolved = [f \in Files |-> "NotLoaded"]
    /\ NoSelection
    /\ NoCanon
    /\ \E data \in [SectionIndexes -> SectionData] :
          string_merge = [section_data |-> data,
                          parsed |-> [i \in SectionIndexes |-> None],
                          pc |-> "parse",
                          todo |-> [b \in BucketIds |-> <<>>],
                          merged |-> EmptySection,
                          add_log |-> <<>>]
    /\ NoPartMap
    /\ NoObject
    /\ NoPasses
    /\ NoFlags

MergeNext ==
    \/ \E i \in SectionIndexes : ParseSection(i)
    \/ ParseFailed
    \/ Gather
    \/ \E b \in BucketIds : AddString(b)
    \/ ComputeBucketOffsets

MergeSpec == MergeInit /\ [][MergeNext]_vars

\* ------------------------------------------------------------------ the part map alone
\* The operations of OutputSectionPartMap applied to maps like those of its
\* tests: maps filled with one value, and default maps with one part set.
Values == {0, 1, 2}

\* test_merge_parts: headers_only.file_headers += 42
HeadersOnlyValue == 42

\* The parts of a map.
Parts(m) ==
    { Fixed(FixedNames[k]) : k \in 1..Len(FixedNames) }
    \cup { Bucket(i - 1, e) : i \in 1..Len(m.regular), e \in Exponents }

\* with_size(size).output_order_map(&output_sections, |_, _, _| v)
Fill(size, v) ==
    [regular |-> [i \in 1..(size - NUM_GENERATED_SECTIONS) |->
                    [k \in 1..(MaxAlignmentExp + 1) |-> v]],
     file_headers |-> v,
     got |-> v,
     plt |-> v,
     symtab_locals |-> v,
     symtab_globals |-> v,
     symtab_strings |-> v,
     shstrtab |-> v,
     rela_plt |-> v]

PartMaps(size) ==
    { Fill(size, v) : v \in Values }
    \cup { PartSet(with_size(size), p, HeadersOnlyValue) : p \in Parts(with_size(size)) }

Sizes == NUM_BUILT_IN_SECTIONS..(NUM_BUILT_IN_SECTIONS + MaxCustom)

\* OutputSections: every custom section id is in exactly one of the four lists.
CustomKinds == {"ro", "exec", "data", "bss"}

CustomList(ids, kinds, kind, descending) ==
    IF descending THEN Rev(Ascending({ id \in ids : kinds[id] = kind }))
    ELSE Ascending({ id \in ids : kinds[id] = kind })

OutputSectionsOf(ids, kinds, descending) ==
    [ro_custom |-> CustomList(ids, kinds, "ro", descending),
     exec_custom |-> CustomList(ids, kinds, "exec", descending),
     data_custom |-> CustomList(ids, kinds, "data", descending),
     bss_custom |-> CustomList(ids, kinds, "bss", descending)]

OutputSectionsMenu ==
    UNION { { OutputSectionsOf(NUM_BUILT_IN_SECTIONS..(size - 1), kinds, descending) :
                kinds \in [NUM_BUILT_IN_SECTIONS..(size - 1) -> CustomKinds],
                descending \in BOOLEAN } :
            size \in Sizes }

\* The pairs mut_with_map is applied to: one of the two maps is filled with one value.
IsFilled(m) == \E v \in Values : m = Fill(len(m), v)

AllPartMaps == UNION { PartMaps(size) : size \in Sizes }

\* The sizes with_size is called with: from no regular section at all.
WithSizes == NUM_GENERATED_SECTIONS..(NUM_BUILT_IN_SECTIONS + MaxCustom)

NoOutputSections == OutputSectionsOf({}, <<>>, FALSE)

\* An operation as it starts: `calls` is what it is going to invoke, the result
\* of output_order_map starts as regular.resize_with(self.regular.len(), default).
Operation(op, os, self, other, calls) ==
    [op |-> op, output_sections |-> os, self |-> self, other |-> other,
     calls |-> calls, pc |-> 1, cb_log |-> <<>>, out |-> with_size(len(self)),
     values_out |-> <<>>, old |-> self, size |-> len(self)]

PartMapInit ==
    /\ DriverUnused
    /\ resolved = [f \in Files |-> "NotLoaded"]
    /\ NoSelection
    /\ NoCanon
    /\ NoMerge
    /\ NoObject
    /\ NoPasses
    /\ NoFlags
       \* output_order_map takes one map, of the size of output_sections
    /\ \/ \E os \in OutputSectionsMenu : \E self \in PartMaps(OutputSectionsLen(os)) :
             part_map = Operation("output_order_map", os, self,
                                  with_size(NUM_GENERATED_SECTIONS),
                                  OutputOrderCalls(self, os))
       \* merge_parts takes one map
       \/ \E self \in AllPartMaps :
             part_map = Operation("merge_parts", NoOutputSections, self,
                                  with_size(NUM_GENERATED_SECTIONS),
                                  MergePartsCalls(self))
       \* mut_with_map takes two maps, one of them filled with one value
       \/ \E self \in AllPartMaps : \E other \in AllPartMaps :
             /\ IsFilled(self) \/ IsFilled(other)
             /\ part_map = Operation("mut_with_map", NoOutputSections, self, other,
                                     MutWithMapCalls(self, other))
       \* merge takes two maps
       \/ \E self \in AllPartMaps : \E other \in AllPartMaps :
             part_map = Operation("merge", NoOutputSections, self, other, <<>>)
       \* with_size takes the number of sections
       \/ \E size \in WithSizes :
             part_map = [Operation("with_size", NoOutputSections,
                                   with_size(NUM_GENERATED_SECTIONS),
                                   with_size(NUM_GENERATED_SECTIONS), <<>>)
                           EXCEPT !.size = size]

PartMapNext ==
    \/ OutputOrderCall
    \/ OutputOrderReturn
    \/ MergePartsCall
    \/ MergePartsReturn
    \/ MutWithMapCall
    \/ MutWithMapReturn
    \/ Merge
    \/ WithSize

PartMapSpec == PartMapInit /\ [][PartMapNext]_vars

\* ------------------------------------------------------------------ one object alone
\* What UnloadedSection::from_section may return for an input section.
TemporaryPartIds ==
    { BuiltIn(TEXT, FALSE), BuiltIn(INIT_ARRAY, TRUE), Custom(DebugName),
      Custom(FooName), EhFrame }

\* The bytes of a string-merge section: a terminated string, and an unterminated one.
MergeData == { <<1, 0>>, <<1>> }

InputSection(unloaded, should_retain, data) ==
    [unloaded |-> unloaded, section_flags |-> [should_retain |-> should_retain],
     section_data |-> data]

InputSections ==
    { InputSection(None, r, <<>>) : r \in BOOLEAN }
    \cup { InputSection(Some([part_id |-> p, is_string_merge |-> FALSE]), r, <<>>) :
              p \in TemporaryPartIds, r \in BOOLEAN }
    \cup { InputSection(Some([part_id |-> p, is_string_merge |-> TRUE]), r, d) :
              p \in TemporaryPartIds, r \in BOOLEAN, d \in MergeData }

\* The object whose symbols are resolved is the first file after the prelude.
ObjectFileId == PRELUDE_FILE_ID + 1

\* Symbol names: the name of symbol zero is empty and is no global name.
EmptyName == <<>>
SymbolNames == { FooName, BarName }

\* symbol_db.global_names: each name is unknown, or that of symbol 1 of some file.
GlobalNames ==
    { [n \in SymbolNames \cup {EmptyName} |-> IF n = EmptyName THEN None ELSE g[n]] :
        g \in [SymbolNames -> {None} \cup { Some(SymbolIdOf(f, 1)) : f \in Files }] }

\* A symbol table entry: its name, whether it is weak, and whether the object
\* defines it itself (then its definition is set before resolve_symbols runs).
LocalSymbol(name, is_weak, is_definition) ==
    [name |-> name, is_weak |-> is_weak, is_definition |-> is_definition]

\* The symbol tables of n entries after symbol zero.
SymbolTables(n) ==
    { <<LocalSymbol(EmptyName, FALSE, FALSE)>> \o t :
        t \in [1..n -> { LocalSymbol(name, w, d) :
                           name \in SymbolNames, w \in BOOLEAN, d \in BOOLEAN }] }

\* definitions_out as resolve_symbols finds it.
DefinitionsOf(symbols) ==
    [i \in 1..Len(symbols) |->
        IF symbols[i].is_definition THEN SymbolIdOf(ObjectFileId, i - 1)
        ELSE UndefinedSymbolId]

ObjectInit ==
    /\ DriverUnused
    /\ resolved = [f \in Files |-> "NotLoaded"]
    /\ NoSelection
    /\ NoCanon
    /\ NoMerge
    /\ NoPartMap
    /\ NoPasses
    /\ NoFlags
       \* resolve_sections
    /\ \/ \E strip_debug \in BOOLEAN :
          \E input \in UNION { [1..n -> InputSections] : n \in 0..MaxSections } :
             object = [op |-> "resolve_sections", strip_debug |-> strip_debug,
                       input |-> input, index |-> 0, sections |-> <<>>,
                       custom_sections |-> <<>>, merge_strings_out |-> <<>>,
                       assigned |-> <<>>]
       \* resolve_symbols
       \/ \E names \in GlobalNames :
          \E symbols \in UNION { SymbolTables(n) : n \in 0..MaxSymbols } :
             object = [op |-> "resolve_symbols", file_id |-> ObjectFileId,
                       symbols |-> symbols, global_names |-> names, index |-> 0,
                       definitions_out |-> DefinitionsOf(symbols),
                       old_definitions |-> DefinitionsOf(symbols),
                       requests |-> <<>>, undefined_symbols_out |-> <<>>]

ObjectNext ==
    \/ ResolveSection
    \/ ResolveSectionsReturn
    \/ SetPartId
    \/ AddSectionsReturn
    \/ ResolveSymbolEntry
    \/ ResolveSymbolsReturn

ObjectSpec == ObjectInit /\ [][ObjectNext]_vars

\* ------------------------------------------------------------------ the passes alone
\* resolve_symbols_and_sections after the parallel phase: every chain structure
\* of alternative_definitions over the definitions of the files, every set of
\* loaded files, a few queues of undefined symbols, and each pass that can
\* return Err doing so.
\* alternative_definitions: each symbol has at most one prior definition, is the
\* prior definition of at most one symbol, and every chain ends.
RECURSIVE ChainEnds(_, _, _)
ChainEnds(p, s, n) ==
    IF ends_chain(s) THEN TRUE
    ELSE IF n = 0 THEN FALSE
    ELSE ChainEnds(p, p[s], n - 1)

AlternativeDefinitions ==
    { p \in [SymbolIds -> {0} \cup SymbolIds] :
        /\ \A s, t \in SymbolIds : (s # t /\ ~ends_chain(p[s])) => p[s] # p[t]
        /\ \A s \in SymbolIds : ChainEnds(p, s, Cardinality(SymbolIds)) }

\* The heads: the symbols that have alternatives and are the alternative of none.
HeadsOf(p) ==
    { s \in SymbolIds : ~ends_chain(p[s]) /\ \A t \in SymbolIds : p[t] # s }

\* symbols_with_alternatives: the heads in either order of their ids.
SymbolsWithAlternatives(p) == {Ascending(HeadsOf(p)), Rev(Ascending(HeadsOf(p)))}

\* What a definition of a loaded object may be here: Strong, Weak, Common, or a
\* Strong definition of a dynamic object.
PassDefinitions ==
    { [weak |-> FALSE, common |-> FALSE, size |-> 0, dynamic |-> FALSE],
      [weak |-> TRUE, common |-> FALSE, size |-> 0, dynamic |-> FALSE],
      [weak |-> FALSE, common |-> TRUE, size |-> 1, dynamic |-> FALSE],
      [weak |-> FALSE, common |-> FALSE, size |-> 0, dynamic |-> TRUE] }

\* The undefined symbols are references: symbols of their own, after the
\* definitions.
ReferenceId(k) == NumFiles - 1 + k
UndefinedSymbolQueues ==
    { <<>>,
      <<[symbol_id |-> ReferenceId(1), name |-> FooName],
        [symbol_id |-> ReferenceId(2), name |-> BarName],
        [symbol_id |-> ReferenceId(3), name |-> FooName]>> }

\* The passes whose `?` can leave with Err.
Fallible == {"resolve_symbols_in_files", "assign_section_ids", "merge_strings"}

PassInit ==
    /\ groups = [f \in Files |-> IF f = PRELUDE_FILE_ID THEN Prelude
                                  ELSE Object(TRUE, <<>>, 0)]
    /\ num_threads = 1
    /\ resolved \in [Files -> {"NotLoaded", "Object"}]
    /\ resolved[PRELUDE_FILE_ID] = "NotLoaded"
    /\ DriverInit
    /\ symbol_db \in [SymbolIds -> PassDefinitions]
    \* symbol_strength reads nothing of a file that is not loaded: its definition
    \* is left at one value.
    /\ \A s \in SymbolIds :
          resolved[file_id_for_symbol(s)] # "Object" =>
              ~symbol_db[s].weak /\ ~symbol_db[s].common /\ ~symbol_db[s].dynamic
    /\ first = 1
    /\ alternatives = <<>>
    /\ selected = None
    /\ NoCanon
    /\ NoMerge
    /\ NoPartMap
    /\ NoObject
    /\ NoFlags
    /\ \E p \in AlternativeDefinitions, u \in UndefinedSymbolQueues,
          fails \in {None} \cup {Some(n) : n \in Fallible} :
          \E heads \in SymbolsWithAlternatives(p) :
             \* A pass that fails is followed by none: what the later passes
             \* would read is left at one value.
             /\ fails # None => (u = <<>> /\ heads = <<>>)
             /\ passes = [status |-> "running", pc |-> 1, fails |-> fails, ran |-> <<>>,
                          undefined_symbols |-> u,
                          previous_definitions |-> p,
                          symbols_with_alternatives |-> heads,
                          heads |-> heads,
                          calls |-> <<>>,
                          prelude |-> FALSE]

PassNext ==
    \/ ResolveSymbolsInFiles
    \/ AssignSectionIds
    \/ MergeStrings
    \/ CanonicaliseUndefinedSymbols
    \/ ResolveAlternative
    \/ ResolveAlternativesReturn
    \/ ResolutionReturn

PassSpec == PassInit /\ [][PassNext]_vars

\* ------------------------------------------------------------------ ValueFlags::merge alone
\* Every pair of u8 values as self and other.
AllValueFlags == 0..(2 ^ ValueFlagsWidth - 1)

FlagsInit ==
    /\ DriverUnused
    /\ resolved = [f \in Files |-> "NotLoaded"]
    /\ NoSelection
    /\ NoCanon
    /\ NoMerge
    /\ NoPartMap
    /\ NoObject
    /\ NoPasses
    /\ \E self \in AllValueFlags, other \in AllValueFlags :
          value_flags = [self |-> self, other |-> other, old |-> self, results |-> <<>>]

FlagsNext == MergeFlags

FlagsSpec == FlagsInit /\ [][FlagsNext]_vars

\* ================================================================== claims
\* ------------------------------------------------------------------ helpers
Spawned == {t \in Threads : pc[t] # "unspawned"}
AllExited == main_pc # "setup" /\ \A t \in Threads : pc[t] \in {"exit", "unspawned"}
Count(q, x) == Cardinality({i \in 1..Len(q) : q[i] = x})
Succeeded == IsSome(result) /\ Unwrap(result).ok
\* The file a worker is about to push, having taken its cell.
Pushing(t) == Unwrap(File(Unwrap(work_item[t])).symbols[sym_index[t]].target)
\* The work items ever created for a file: processed, queued, or taken and about
\* to be queued.
WorkItemsFor(f) ==
    processed[f] + Count(work_queue, f)
    + Cardinality({t \in Threads : pc[t] = "push_work" /\ Pushing(t) = f})
\* A worker is at a non-weak reference to a symbol of file g.
AtStrongRefTo(t, g) ==
    /\ pc[t] = "process"
    /\ IsObject(Unwrap(work_item[t]))
    /\ sym_index[t] <= Len(File(Unwrap(work_item[t])).symbols)
    /\ File(Unwrap(work_item[t])).symbols[sym_index[t]] = Ref(g, FALSE)
    /\ g # Unwrap(work_item[t])

\* C1: under every interleaving at most one WorkItem is ever created per file and
\* process_object runs at most once per file; the cell of a non-optional object
\* is empty from setup on, so a request for it creates no work item.
C1_AtMostOnce ==
    \A f \in Files :
        /\ WorkItemsFor(f) <= 1
        /\ processed[f] <= 1
        /\ (main_pc # "setup" /\ IsRequired(f)) => ~definitions_per_file[f]
        /\ (main_pc = "running" /\ IsRequired(f)) => WorkItemsFor(f) = 1

\* C1 witness: one worker has taken the cell of g and is about to queue it while
\* a second worker has just requested g too and found the cell empty.
C1_Witness ==
    \E t, u \in Threads : \E g \in Files :
        /\ t # u
        /\ pc[t] = "push_work" /\ Pushing(t) = g
        /\ pc[u] = "process" /\ sym_index[u] > 1
        /\ File(Unwrap(work_item[u])).symbols[sym_index[u] - 1] = Ref(g, FALSE)

\* C2: under fair scheduling of every worker (and of the main thread), every
\* worker eventually leaves its loop; none stays blocked in park().
C2_AllWorkersExit == <>AllExited

\* C2 witness: with several workers, all have left the loop after at least one
\* of them was woken through the idle queue.
C2_Witness ==
    /\ AllExited
    /\ num_threads = MaxThreads
    /\ done
    /\ requested # {}
    /\ \A t \in Threads : park_token[t] = FALSE

\* C3 as claimed: on Ok every non-optional object and every requested file was
\* processed exactly once and is ResolvedFile::Object, and no work item is left
\* when the last worker has exited.
C3_Original ==
    /\ Succeeded =>
          \A f \in Files :
              (IsRequired(f) \/ f \in requested) =>
                  processed[f] = 1 /\ resolved[f] = "Object"
    /\ AllExited => work_queue = <<>>

\* C3 as amended: on Ok every non-optional object and every requested file was
\* processed exactly once; those that are objects are ResolvedFile::Object, a
\* requested prelude or epilogue keeps its slot; no work item is ever left or
\* about to be queued when the last worker has exited.
C3_ProcessedOnce ==
    /\ Succeeded =>
          \A f \in Files :
              (IsRequired(f) \/ f \in requested) =>
                  /\ processed[f] = 1
                  /\ IsObject(f) => resolved[f] = "Object"
                  /\ File(f).kind = "Prelude" => resolved[f] = "NotLoaded"
                  /\ File(f).kind = "Epilogue" => resolved[f] = "Epilogue"
    /\ AllExited =>
          /\ work_queue = <<>>
          /\ \A f \in Files : ~definitions_per_file[f] => processed[f] = 1

\* C3 witness: Ok with several workers, a requested optional object loaded and a
\* requested file that is not an object processed as well.
C3_Witness ==
    /\ Succeeded
    /\ num_threads > 1
    /\ \E f \in requested : IsObject(f) /\ File(f).optional /\ resolved[f] = "Object"
    /\ \E f \in requested : ~IsObject(f)

\* C4 as claimed: when a worker is about to store done = true, no other worker
\* is inside process_object and the work queue is empty.
C4_DoneOnlyWhenAllIdle ==
    \A t \in Threads :
        pc[t] = "store_done" =>
            /\ work_queue = <<>>
            /\ \A u \in Threads \ {t} : work_item[u] = None

\* C5: the errors queue never holds more than one error, the one it holds is the
\* first one pushed, and that error is what resolve_symbols_in_files returns.
C5_FirstErrorWins ==
    /\ Len(errors) <= 1
    /\ (main_pc = "running" /\ error_log # <<>>) => errors = <<Head(error_log)>>
    /\ (main_pc = "running" /\ error_log = <<>>) => errors = <<>>
    /\ (main_pc = "returned" /\ error_log # <<>>) =>
          result = Some([ok |-> FALSE, err |-> Head(error_log)])
    /\ (main_pc = "returned" /\ error_log = <<>> /\ num_objects > 0) => Succeeded

\* C5 witness: two work items failed and the function has returned.
C5_Witness ==
    /\ main_pc = "returned"
    /\ Len(error_log) = 2
    /\ error_log[1] # error_log[2]

ZeroInputFiles ==
    Some([ok |-> FALSE, err |-> [msg |-> "Cannot link with 0 input files", file |-> None]])

\* C6: if no file of the input is an object, optional or not, the function fails
\* with "Cannot link with 0 input files" and no worker is ever spawned and no
\* work item processed; an input with an object, even an optional one, does not
\* fail that way.
C6_ZeroInputFiles ==
    main_pc # "setup" =>
        IF \A f \in Files : ~IsObject(f)
        THEN /\ main_pc = "returned"
             /\ result = ZeroInputFiles
             /\ Spawned = {}
             /\ \A f \in Files : processed[f] = 0
             /\ work_queue = <<>>
        ELSE result # ZeroInputFiles

\* C6 witness: the function has returned on an input without objects.
C6_Witness ==
    /\ main_pc = "returned"
    /\ \A f \in Files : ~IsObject(f)
    /\ result = ZeroInputFiles

\* The non-weak references of an object to symbols owned by other files.
StrongTargets(f) ==
    { g \in Files \ {f} :
        \E i \in 1..Len(File(f).symbols) : File(f).symbols[i] = Ref(g, FALSE) }

\* The least set of files that holds the non-optional objects and, with every
\* object in it, the targets of its non-weak references.
RECURSIVE Close(_)
Close(S) ==
    LET more == S \cup UNION { StrongTargets(f) : f \in { g \in S : IsObject(g) } }
    IN IF more = S THEN S ELSE Close(more)
Closure == { f \in Close({ f \in Files : IsRequired(f) }) : IsObject(f) }

\* C10: on Ok the files that are ResolvedFile::Object are exactly the closure of
\* the non-optional objects under non-weak references, a function of the input
\* alone: the same for every thread count and every interleaving.
C10_LoadedIsClosure ==
    Succeeded => { f \in Files : resolved[f] = "Object" } = Closure

\* C10 witness: Ok with the largest thread count, where the closure holds an
\* optional object and leaves out a weakly referenced one.
C10_Witness ==
    /\ Succeeded
    /\ num_threads = MaxThreads
    /\ \E f \in Closure : File(f).optional
    /\ \E f, g \in Files :
          /\ f \in Closure /\ g \notin Closure /\ IsObject(g)
          /\ \E i \in 1..Len(File(f).symbols) : File(f).symbols[i] = Ref(g, TRUE)

\* ------------------------------------------------------------------ select_symbol
Candidates == {first} \cup {alternatives[i] : i \in 1..Len(alternatives)}
StrengthOf(s) == symbol_strength(s, resolved)
Chosen == Unwrap(selected)

\* C7 as claimed: when the candidates hold a DYNAMIC definition and a weak
\* non-dynamic definition of a loaded object, the definition selected is not a
\* DYNAMIC one, whichever of them is the head.
C7_DynamicNeverDisplacesWeak ==
    (/\ IsSome(selected)
     /\ \E d \in Candidates : IsDynamic(d)
     /\ \E w \in Candidates : ~IsDynamic(w) /\ StrengthOf(w).kind = "Weak")
        => ~IsDynamic(Chosen)

\* C8 as claimed: with no strong definition, and common symbols of loaded objects
\* among the candidates, the definition selected is a common symbol whose size
\* is the largest of them all, head included.  (Stated for candidates none of
\* which is DYNAMIC, the case the claim's example is about.)
C8_LargestCommonWins ==
    IsSome(selected) =>
        LET commons == {c \in Candidates : StrengthOf(c).kind = "Common"}
        IN IF /\ \A c \in Candidates : StrengthOf(c).kind # "Strong" /\ ~IsDynamic(c)
              /\ commons # {}
           THEN /\ Chosen \in commons
                /\ \A c \in commons : StrengthOf(c).size <= StrengthOf(Chosen).size
           ELSE TRUE

\* The non-dynamic Strong alternatives, as positions of the chain.
StrongAlternatives ==
    { i \in 1..Len(alternatives) :
        ~IsDynamic(alternatives[i]) /\ StrengthOf(alternatives[i]).kind = "Strong" }

\* C9: a Strong head is selected; otherwise, if a non-dynamic alternative is
\* Strong, the first such alternative in reverse chain order is selected (the one
\* latest in the chain); and if every candidate is Weak the head is selected.
C9_StrongBeatsWeak ==
    IsSome(selected) =>
        /\ (StrengthOf(first).kind = "Strong" => Chosen = first)
        /\ ((StrengthOf(first).kind # "Strong" /\ StrongAlternatives # {}) =>
              Chosen = alternatives[CHOOSE i \in StrongAlternatives :
                                        \A j \in StrongAlternatives : j <= i])
        /\ ((\A c \in Candidates : StrengthOf(c).kind = "Weak") => Chosen = first)

\* C9 witness: the head is weak, two non-dynamic alternatives are Strong, and the
\* one met first in reverse chain order has been selected.
C9_Witness ==
    /\ IsSome(selected)
    /\ StrengthOf(first).kind = "Weak"
    /\ Cardinality(StrongAlternatives) = 2
    /\ Chosen = alternatives[Len(alternatives)]

\* ------------------------------------------------------------------ canonicalise_undefined_symbols
QueueRecords == { undefined_queue[i] : i \in 1..Len(undefined_queue) }
\* The records the loop has not visited yet.
Pending ==
    IF canon_pc = "start" THEN QueueRecords
    ELSE { undefined_symbols[i] : i \in 1..Len(undefined_symbols) }
Visited == QueueRecords \ Pending
\* A record survives when it names no file or names a file that is NotLoaded.
Survives(r) ==
    r.ignore_if_loaded = None \/ resolved[Unwrap(r.ignore_if_loaded)] = "NotLoaded"
Survivors(n) == { r \in QueueRecords : r.name = n /\ Survives(r) }
SmallestId(recs) == CHOOSE i \in {r.symbol_id : r \in recs} : \A r \in recs : i <= r.symbol_id
\* The def a name stands for: __start_<s> or __stop_<s> with <s> a custom section.
ExpectedDefs(n) ==
    { SectionStart(i) : i \in { j \in 1..Len(CustomSections) :
                                    n = START_PREFIX \o CustomSections[j] } }
    \cup { SectionEnd(i) : i \in { j \in 1..Len(CustomSections) :
                                    n = STOP_PREFIX \o CustomSections[j] } }

\* C11: when canonicalise_undefined_symbols has returned, every surviving name
\* __start_<s> / __stop_<s> of a known custom section <s> has had exactly one
\* add_start_stop_symbol call and has exactly one SectionStart(id) / SectionEnd(id)
\* in the defs list, however many records carry it, and all its records point to
\* the new symbol; any other surviving name has had no call, has no def, and is
\* canonicalised to the smallest (first) symbol id that refers to it.
C11_StartStopOnce ==
    canon_pc = "returned" =>
        /\ \A n \in CanonNames :
              LET recs == Survivors(n)
              IN IF recs = {}
                 THEN Count(start_stop_calls, n) = 0 /\ name_to_id[n] = None
                 ELSE IF ExpectedDefs(n) # {}
                 THEN /\ Count(start_stop_calls, n) = 1
                      /\ \A d \in ExpectedDefs(n) : Count(custom_start_stop_defs, d) = 1
                      /\ IsSome(name_to_id[n])
                      /\ Unwrap(name_to_id[n]) > MaxUndefined
                      /\ \A r \in recs : definitions[r.symbol_id] = Unwrap(name_to_id[n])
                 ELSE /\ Count(start_stop_calls, n) = 0
                      /\ name_to_id[n] = Some(SmallestId(recs))
        /\ Len(custom_start_stop_defs) =
              Cardinality({ n \in CanonNames : Survivors(n) # {} /\ ExpectedDefs(n) # {} })
        /\ num_symbols = MaxUndefined + Len(custom_start_stop_defs)

\* C11 witness: returned with two surviving records named __start_foo, which gave
\* one add_start_stop_symbol call and one SectionStart.
C11_Witness ==
    /\ canon_pc = "returned"
    /\ Cardinality(Survivors(START_PREFIX \o FooName)) = 2
    /\ start_stop_calls = <<START_PREFIX \o FooName>>
    /\ custom_start_stop_defs = <<SectionStart(1)>>

\* C12: a record the loop has visited was skipped (nothing stored for its symbol
\* id by replace_definition) exactly when it names a file and that file is not
\* NotLoaded; a record without a file is never skipped; and a name all of whose
\* records were skipped is not registered.
C12_SkippedIffLoaded ==
    /\ \A r \in Visited :
          /\ (definitions[r.symbol_id] = 0) <=>
                (IsSome(r.ignore_if_loaded) /\
                 resolved[Unwrap(r.ignore_if_loaded)] # "NotLoaded")
          /\ r.ignore_if_loaded = None => definitions[r.symbol_id] # 0
    /\ \A n \in CanonNames :
          (\A r \in QueueRecords : r.name = n => ~Survives(r)) => name_to_id[n] = None

\* C12 witness: returned, the named file is an Epilogue (not NotLoaded, not an
\* Object); a record naming it was skipped and a record of the same name without
\* a file was not.
C12_Witness ==
    /\ canon_pc = "returned"
    /\ resolved[IgnoreFile] = "Epilogue"
    /\ \E r, q \in QueueRecords :
          /\ r.name = q.name
          /\ r.ignore_if_loaded = Some(IgnoreFile) /\ definitions[r.symbol_id] = 0
          /\ q.ignore_if_loaded = None /\ definitions[q.symbol_id] # 0

\* C13: when the function has returned, all surviving records of a name point to
\* one canonical id, and for a name that is not a start/stop symbol of a custom
\* section that id is the smallest symbol id among the surviving records of the
\* name, whatever the order of the queue.
C13_SmallestSurvivor ==
    canon_pc = "returned" =>
        \A n \in CanonNames :
            LET recs == Survivors(n)
            IN recs # {} =>
                 /\ \A r, q \in recs : definitions[r.symbol_id] = definitions[q.symbol_id]
                 /\ ExpectedDefs(n) = {} =>
                       \A r \in recs : definitions[r.symbol_id] = SmallestId(recs)

\* C13 witness: returned; two surviving records of the ordinary name foo were
\* pushed with the greater symbol id first, and both point to the smaller id.
C13_Witness ==
    /\ canon_pc = "returned"
    /\ \E i, j \in 1..Len(undefined_queue) :
          /\ i < j
          /\ undefined_queue[i].name = FooName /\ undefined_queue[j].name = FooName
          /\ Survives(undefined_queue[i]) /\ Survives(undefined_queue[j])
          /\ undefined_queue[i].symbol_id > undefined_queue[j].symbol_id
          /\ definitions[undefined_queue[i].symbol_id] = undefined_queue[j].symbol_id
          /\ definitions[undefined_queue[j].symbol_id] = undefined_queue[j].symbol_id

\* ------------------------------------------------------------------ merge_strings
\* The strings of a fully null-terminated section, in order.
RECURSIVE SplitAtNulls(_)
SplitAtNulls(data) ==
    IF data = <<>> THEN <<>>
    ELSE LET n == CHOOSE i \in 1..Len(data) :
                      data[i] = 0 /\ \A j \in 1..(i - 1) : data[j] # 0
         IN <<SubSeq(data, 1, n)>> \o SplitAtNulls(SubSeq(data, n + 1, Len(data)))
\* The strings of the input sections from index i on: the fixed sequence of fragments.
RECURSIVE InputStrings(_)
InputStrings(i) ==
    IF i \notin SectionIndexes THEN <<>>
    ELSE SplitAtNulls(section_data[i]) \o InputStrings(i + 1)
FirstIndex(seq, x) == CHOOSE i \in 1..Len(seq) : seq[i] = x /\ \A j \in 1..(i - 1) : seq[j] # x
RECURSIVE SumLen(_)
SumLen(S) == IF S = {} THEN 0 ELSE LET x == CHOOSE y \in S : TRUE IN Len(x) + SumLen(S \ {x})
BucketOfString(x) == hash_bytes(x) % MERGE_STRING_BUCKETS
\* Where the input alone puts a string: after every unique string of a lower
\* bucket and every unique string of its own bucket that occurs earlier.
ExpectedOffset(x) ==
    LET all == InputStrings(1)
        unique == { all[i] : i \in 1..Len(all) }
    IN SumLen({ u \in unique : BucketOfString(u) < BucketOfString(x) })
       + SumLen({ u \in unique : /\ BucketOfString(u) = BucketOfString(x)
                                  /\ FirstIndex(all, u) < FirstIndex(all, x) })

\* C14: when merge_strings is done, the absolute offset of every unique string is
\* the one the sequence of input fragments alone determines, whatever the order
\* and interleaving in which the bucket tasks ran.
C14_OffsetsIndependentOfSchedule ==
    merge_pc = "done" =>
        LET all == InputStrings(1)
        IN \A i \in 1..Len(all) : section_get(merged, all[i]) = Some(ExpectedOffset(all[i]))

\* C14 witness: done after the tasks of two buckets ran interleaved, the higher
\* bucket first.
C14_Witness ==
    /\ merge_pc = "done"
    /\ \E i, j, k \in 1..Len(add_log) :
          /\ i < j /\ j < k
          /\ add_log[i].bucket = add_log[k].bucket
          /\ add_log[j].bucket < add_log[i].bucket

\* The index in the log of the first add_string call for the string of call k.
FirstAdd(k) ==
    CHOOSE j \in 1..k : add_log[j].string = add_log[k].string
                        /\ \A h \in 1..(j - 1) : add_log[h].string # add_log[k].string

\* C15: the first add_string of a string returns the bucket's next_offset of that
\* moment; adding an identical string again returns the same offset and leaves
\* next_offset and the strings list as they were; and when merge_strings is done,
\* bucket_offsets[0] = 0, bucket_offsets[i] = bucket_offsets[i-1] + buckets[i-1].len(),
\* and get of every added string is bucket_offsets[hash % 32] plus that first offset.
C15_BucketOffsetsAndDedup ==
    /\ \A k \in 1..Len(add_log) :
          IF FirstAdd(k) = k
          THEN add_log[k].offset = add_log[k].next_offset_before
          ELSE /\ add_log[k].offset = add_log[FirstAdd(k)].offset
               /\ add_log[k].next_offset_after = add_log[k].next_offset_before
               /\ add_log[k].strings_after = add_log[k].strings_before
    /\ merge_pc = "done" =>
          /\ merged.bucket_offsets[0] = 0
          /\ \A i \in BucketIds \ {0} :
                merged.bucket_offsets[i] =
                    merged.bucket_offsets[i - 1] + merged.buckets[i - 1].next_offset
          /\ \A k \in 1..Len(add_log) :
                section_get(merged, add_log[k].string) =
                    Some(merged.bucket_offsets[BucketOfString(add_log[k].string)]
                         + add_log[FirstAdd(k)].next_offset_before)

\* C15 witness: done; a string was added twice, two different strings share a
\* bucket, and a string lies in a bucket whose offset is not 0.
C15_Witness ==
    /\ merge_pc = "done"
    /\ \E k \in 1..Len(add_log) : FirstAdd(k) # k
    /\ \E j, k \in 1..Len(add_log) :
          add_log[j].bucket = add_log[k].bucket /\ add_log[j].string # add_log[k].string
    /\ \E k \in 1..Len(add_log) : merged.bucket_offsets[add_log[k].bucket] > 0

RECURSIVE TotalLen(_)
TotalLen(strings) == IF strings = <<>> THEN 0 ELSE Len(Head(strings)) + TotalLen(Tail(strings))
RECURSIVE BucketsLen(_, _)
BucketsLen(buckets, b) ==
    IF b \notin BucketIds THEN 0 ELSE TotalLen(buckets[b]) + BucketsLen(buckets, b + 1)

\* C16: parsing a section whose bytes do not end with a null fails and yields no
\* buckets; parsing an empty or null-terminated section succeeds, every parsed
\* string ends with its terminator (and holds no other null) and lies in bucket
\* hash % 32, and the lengths of the parsed strings sum to the section length.
C16_ParseNullTerminated ==
    \A i \in SectionIndexes :
        IsSome(parsed[i]) =>
            LET data == section_data[i]
                r == Unwrap(parsed[i])
            IN IF data # <<>> /\ data[Len(data)] # 0
               THEN ~r.ok /\ r.buckets = EmptyBuckets
               ELSE /\ r.ok
                    /\ \A b \in BucketIds : \A k \in 1..Len(r.buckets[b]) :
                          LET x == r.buckets[b][k]
                          IN /\ x # <<>>
                             /\ x[Len(x)] = 0
                             /\ \A j \in 1..(Len(x) - 1) : x[j] # 0
                             /\ hash_bytes(x) % MERGE_STRING_BUCKETS = b
                    /\ BucketsLen(r.buckets, 0) = Len(data)

\* C16 witness: one section parsed into two strings of different buckets, the
\* other, with bytes after its last null, failed to parse.
C16_Witness ==
    \E i, j \in SectionIndexes :
        /\ IsSome(parsed[i]) /\ IsSome(parsed[j])
        /\ Unwrap(parsed[i]).ok
        /\ Cardinality({ b \in BucketIds : Unwrap(parsed[i]).buckets[b] # <<>> }) = 2
        /\ ~Unwrap(parsed[j]).ok
        /\ \E k \in 1..Len(section_data[j]) : section_data[j][k] = 0

\* ------------------------------------------------------------------ C40
\* The distinct strings add_string was called with.
AddedStrings == { add_log[k].string : k \in 1..Len(add_log) }

\* The bytes of the output section a string occupies: [offset, offset + length).
RangeOf(x) ==
    LET offset == Unwrap(section_get(merged, x))
    IN  offset..(offset + Len(x) - 1)

\* C40: when merge_strings is done, every added string has an offset, the byte
\* ranges [offset, offset + length) of distinct strings are pairwise disjoint
\* and together are exactly [0, len()), and MergeStringsSection::len() is the
\* sum of the lengths of the distinct strings of all buckets, which is 0 for a
\* section that received no string.
C40_RangesTileSection ==
    merge_pc = "done" =>
        /\ \A x \in AddedStrings : IsSome(section_get(merged, x))
        /\ \A x, y \in AddedStrings : x # y => RangeOf(x) \cap RangeOf(y) = {}
        /\ UNION { RangeOf(x) : x \in AddedStrings } = 0..(section_len(merged) - 1)
        /\ section_len(merged) = SumLen(AddedStrings)
        /\ AddedStrings = {} => section_len(merged) = 0
        /\ section_len(EmptySection) = 0

\* C40 witness: done with three distinct strings, two of them in one bucket and
\* the third in a higher one, and a string that was added twice.
C40_Witness ==
    /\ merge_pc = "done"
    /\ \E x, y, z \in AddedStrings :
          /\ x # y
          /\ BucketOfString(x) = BucketOfString(y)
          /\ BucketOfString(z) > BucketOfString(x)
    /\ Cardinality(AddedStrings) < Len(add_log)
    /\ section_len(merged) > 0

\* ------------------------------------------------------------------ part map: helpers
\* The section ids in the order the callback of output_order_map is to see them.
CanonicalOrder(os) ==
    <<HEADERS>>
    \o <<RODATA, INIT_ARRAY, FINI_ARRAY, PREINIT_ARRAY>>
    \o <<SHSTRTAB, SYMTAB, STRTAB, RELA_PLT>>
    \o os.ro_custom
    \o <<PLT>>
    \o <<TEXT, INIT, FINI>>
    \o os.exec_custom
    \o <<GOT>>
    \o <<DATA>>
    \o os.data_custom
    \o <<TDATA, TBSS, BSS>>
    \o os.bss_custom

\* The parts an output section is made of: its fixed part (locals then globals
\* for SYMTAB) or its alignment buckets in ascending alignment.
SectionParts(id) ==
    CASE id = HEADERS -> <<Fixed("file_headers")>>
      [] id = SHSTRTAB -> <<Fixed("shstrtab")>>
      [] id = SYMTAB -> <<Fixed("symtab_locals"), Fixed("symtab_globals")>>
      [] id = STRTAB -> <<Fixed("symtab_strings")>>
      [] id = GOT -> <<Fixed("got")>>
      [] id = PLT -> <<Fixed("plt")>>
      [] id = RELA_PLT -> <<Fixed("rela_plt")>>
      [] OTHER -> [k \in 1..(MaxAlignmentExp + 1) |->
                     Bucket(id - NUM_GENERATED_SECTIONS, k - 1)]

\* The parts in the order they are to be visited: section by section, the
\* buckets of a regular section in descending alignment.
VisitOrder(id) ==
    IF id < NUM_GENERATED_SECTIONS THEN SectionParts(id) ELSE Rev(SectionParts(id))

RECURSIVE ExpectedVisits(_)
ExpectedVisits(ids) ==
    IF ids = <<>> THEN <<>>
    ELSE [k \in 1..Len(VisitOrder(Head(ids))) |->
             [section_id |-> Head(ids), part |-> VisitOrder(Head(ids))[k]]]
         \o ExpectedVisits(Tail(ids))

\* How many invocations of the log were made on part p.
TimesVisited(p) == Cardinality({ k \in 1..Len(cb_log) : cb_log[k].part = p })

\* The value of a part, a part the map does not have counting as the default.
GetOrDefault(m, p) ==
    IF p.kind = "regular" /\ p.index >= Len(m.regular) THEN Default ELSE PartGet(m, p)

\* ------------------------------------------------------------------ C17
\* C17: output_order_map invokes its callback once per fixed part and once per
\* alignment bucket of every regular section, in the canonical order of
\* sections (HEADERS; RODATA, INIT_ARRAY, FINI_ARRAY, PREINIT_ARRAY; SHSTRTAB,
\* SYMTAB locals, SYMTAB globals, STRTAB, RELA_PLT; ro_custom; PLT; TEXT, INIT,
\* FINI; exec_custom; GOT; DATA; data_custom; TDATA, TBSS, BSS; bss_custom),
\* the buckets of a regular section in descending alignment; what an
\* invocation returns is stored at the part of the new map it was invoked on.
C17_OutputOrder ==
    part_op \in {"output_order_map", "done_output_order_map"} =>
        LET expected == ExpectedVisits(CanonicalOrder(output_sections))
        IN  /\ Len(cb_log) <= Len(expected)
            /\ \A k \in 1..Len(cb_log) :
                  /\ cb_log[k].section_id = expected[k].section_id
                  /\ cb_log[k].part = expected[k].part
                  /\ cb_log[k].value = PartGet(part_self, expected[k].part)
                  /\ PartGet(part_out, expected[k].part) = cb_log[k].returned
            /\ part_op = "done_output_order_map" =>
                  /\ Len(cb_log) = Len(expected)
                  /\ len(part_out) = len(part_self)
                  /\ \A p \in Parts(part_self) : TimesVisited(p) = 1

\* output_order_map has returned for a map with a custom section of every list
\* the bound allows, one of its buckets populated.
C17_Witness ==
    /\ part_op = "done_output_order_map"
    /\ output_sections.exec_custom # <<>>
    /\ len(part_self) = NUM_BUILT_IN_SECTIONS + MaxCustom
    /\ \E p \in Parts(part_self) :
          /\ p.kind = "regular"
          /\ PartGet(part_self, p) = HeadersOnlyValue
          /\ PartGet(part_out, p) > 1

\* ------------------------------------------------------------------ C18
\* C18: merge_parts invokes its callback once per output section, on the fixed
\* part of a generated section ([locals, globals] for SYMTAB) and on the
\* alignment buckets of a regular section, and stores the result for section id
\* i at index i; with the sum as callback a value placed in one part shows in
\* its own section only, and a map of ones gives a positive sum everywhere.
C18_MergeParts ==
    part_op = "done_merge_parts" =>
        /\ Len(values_out) = len(part_self)
        /\ Len(cb_log) = len(part_self)
        /\ \A id \in 0..(len(part_self) - 1) :
              /\ cb_log[id + 1].parts = SectionParts(id)
              /\ cb_log[id + 1].values =
                    [k \in 1..Len(SectionParts(id)) |->
                        PartGet(part_self, SectionParts(id)[k])]
              /\ values_out[id + 1] = cb_log[id + 1].returned
              /\ part_self = Fill(len(part_self), 1) => values_out[id + 1] > 0
              /\ \A p \in Parts(part_self) :
                    part_self = PartSet(with_size(len(part_self)), p, HeadersOnlyValue) =>
                        values_out[id + 1] =
                            IF \E k \in 1..Len(SectionParts(id)) : SectionParts(id)[k] = p
                            THEN HeadersOnlyValue ELSE 0

\* merge_parts has returned for the map with only file_headers = 42.
C18_Witness ==
    /\ part_op = "done_merge_parts"
    /\ part_self = PartSet(with_size(len(part_self)), Fixed("file_headers"),
                           HeadersOnlyValue)
    /\ len(part_self) > NUM_BUILT_IN_SECTIONS
    /\ values_out[HEADERS + 1] = HeadersOnlyValue
    /\ values_out[TEXT + 1] = 0
    /\ values_out[BSS + 1] = 0

\* ------------------------------------------------------------------ C19
C19_Pairs ==
    (part_op = "done_mut_with_map" /\ len(part_old) = len(part_other)) =>
        /\ \A k \in 1..Len(cb_log) : cb_log[k].self_part = cb_log[k].other_part
        /\ \A p \in Parts(part_old) :
              /\ Cardinality({ k \in 1..Len(cb_log) : cb_log[k].self_part = p }) = 1
              /\ PartGet(part_self, p) = PartGet(part_old, p) + PartGet(part_other, p)
        /\ (part_old = Fill(len(part_old), 1) /\ part_other = Fill(len(part_old), 2)) =>
              part_self = Fill(len(part_old), 3)

\* C19: for maps A and B of equal size, mut_with_map with += invokes the
\* callback once on every pair of corresponding parts and on no other pair, so
\* that every part of A ends as its old value plus the same part of B (ones and
\* twos give threes); B is never changed.
C19_MutWithMap ==
    /\ []C19_Pairs
    /\ [][part_op = "mut_with_map" => part_other' = part_other]_vars

\* mut_with_map has returned for A of ones and B of twos with a custom section.
C19_Witness ==
    /\ part_op = "done_mut_with_map"
    /\ len(part_old) > NUM_BUILT_IN_SECTIONS
    /\ part_old = Fill(len(part_old), 1)
    /\ part_other = Fill(len(part_old), 2)
    /\ part_self = Fill(len(part_old), 3)

\* ------------------------------------------------------------------ C20
C20_Sums ==
    part_op = "done_merge" =>
        /\ len(part_self) = Max2(len(part_old), len(part_other))
        /\ \A p \in Parts(part_self) :
              PartGet(part_self, p) = GetOrDefault(part_old, p) + GetOrDefault(part_other, p)
        /\ part_self = merge(part_other, part_old)
        /\ (part_old = Fill(len(part_old), 1) /\ part_other = Fill(len(part_old), 2)) =>
              part_self = Fill(len(part_old), 3)

\* C20: after A.merge(B) the length of A is the larger of the two lengths and
\* every part of A is its old value plus the same part of B, a part one of them
\* lacks counting as the default; B is not changed; B.merge(A) gives the same map.
C20_Merge ==
    /\ []C20_Sums
    /\ [][part_op = "merge" => part_other' = part_other]_vars

\* merge has returned for an A shorter than B, B populated in the section A lacked.
C20_Witness ==
    /\ part_op = "done_merge"
    /\ len(part_old) < len(part_other)
    /\ part_old = Fill(len(part_old), 1)
    /\ \E e \in Exponents :
          PartGet(part_other, Bucket(Len(part_other.regular) - 1, e)) = HeadersOnlyValue
    /\ len(part_self) = len(part_other)

\* ------------------------------------------------------------------ C21
\* The claim as stated: with_size(n) has n minus eight regular slots, eight
\* being the number of the fixed parts file_headers, got, plt, symtab_locals,
\* symtab_globals, symtab_strings, shstrtab, rela_plt, and len() is the number
\* of regular sections plus eight.
C21_Original ==
    part_op = "done_with_size" =>
        /\ Len(part_self.regular) = part_size - Len(FixedNames)
        /\ len(part_self) = Len(part_self.regular) + Len(FixedNames)

\* C21: with_size(n) yields a map whose values are all default and which has
\* n minus NUM_GENERATED_SECTIONS regular slots (seven: symtab_locals and
\* symtab_globals are the two parts of the one section SYMTAB), len() is the
\* number of regular slots plus NUM_GENERATED_SECTIONS, so with_size(n).len()
\* is n, and merge_parts returns one value per unit of len().
C21_WithSizeLen ==
    /\ part_op = "done_with_size" =>
          /\ \A p \in Parts(part_self) : PartGet(part_self, p) = Default
          /\ Len(part_self.regular) = part_size - NUM_GENERATED_SECTIONS
          /\ len(part_self) = Len(part_self.regular) + NUM_GENERATED_SECTIONS
          /\ len(part_self) = part_size
    /\ part_op = "done_merge_parts" => Len(values_out) = len(part_self)
    /\ part_op \in {"merge_parts", "done_merge_parts"} =>
          len(part_self) = Len(part_self.regular) + NUM_GENERATED_SECTIONS

\* with_size has returned a map with regular slots for the built-in sections
\* and a custom one.
C21_Witness ==
    /\ part_op = "done_with_size"
    /\ part_size = NUM_BUILT_IN_SECTIONS + MaxCustom
    /\ Len(part_self.regular) = part_size - NUM_GENERATED_SECTIONS
    /\ part_self.symtab_globals = Default

\* ------------------------------------------------------------------ C22
\* The alignments whose bucket is not default in the section of an invocation.
Populated(call) ==
    { e \in Exponents : PartGet(part_self, Bucket(call.part.index, e)) # Default }

Largest(S) == CHOOSE e \in S : \A x \in S : x <= e

\* The claim as stated: the alignment passed for a bucket of a regular section
\* is the bucket alignment clamped into [min_alignment(section), largest
\* populated alignment], the upper bound being min_alignment(section) when no
\* bucket is populated, and is never below min_alignment(section).
C22_Original ==
    part_op \in {"output_order_map", "done_output_order_map"} =>
        \A k \in 1..Len(cb_log) :
            cb_log[k].part.kind = "regular" =>
                LET lo == min_alignment(cb_log[k].section_id)
                    hi == IF Populated(cb_log[k]) = {} THEN lo
                          ELSE Largest(Populated(cb_log[k]))
                IN  /\ cb_log[k].alignment =
                          Max2(lo, Min2(cb_log[k].part.exponent, hi))
                    /\ cb_log[k].alignment >= lo

\* C22: for every bucket of a regular section the alignment passed to the
\* callback of output_order_map is min(M, max(bucket alignment,
\* min_alignment(section))), M being the largest alignment whose bucket is
\* non-default in that section, or Alignment::default() if none is; it is
\* never above M, it is the bucket alignment clamped into
\* [min_alignment(section), M] whenever min_alignment(section) <= M, and it
\* equals M, below the section's min_alignment, otherwise.
C22_EffectiveAlignment ==
    part_op \in {"output_order_map", "done_output_order_map"} =>
        \A k \in 1..Len(cb_log) :
            cb_log[k].part.kind = "regular" =>
                LET lo == min_alignment(cb_log[k].section_id)
                    M == IF Populated(cb_log[k]) = {} THEN AlignmentDefault
                         ELSE Largest(Populated(cb_log[k]))
                    bucket == cb_log[k].part.exponent
                IN  /\ cb_log[k].alignment <= M
                    /\ lo <= M =>
                          /\ cb_log[k].alignment >= lo
                          /\ bucket \in lo..M => cb_log[k].alignment = bucket
                          /\ bucket < lo => cb_log[k].alignment = lo
                          /\ bucket > M => cb_log[k].alignment = M
                    /\ lo > M => cb_log[k].alignment = M

\* output_order_map has returned for a map whose only populated bucket is one
\* of INIT_ARRAY below the section's min_alignment: the bucket at
\* min_alignment was reported at the populated alignment.
C22_Witness ==
    /\ part_op = "done_output_order_map"
    /\ \E k \in 1..Len(cb_log) :
          /\ cb_log[k].section_id = INIT_ARRAY
          /\ cb_log[k].part.kind = "regular"
          /\ cb_log[k].part.exponent = min_alignment(INIT_ARRAY)
          /\ Populated(cb_log[k]) = {0}
          /\ cb_log[k].alignment = 0
          /\ cb_log[k].alignment < min_alignment(INIT_ARRAY)

\* ------------------------------------------------------------------ resolve_sections: helpers
\* The object is in resolve_sections or in what follows it for its sections.
InSections ==
    object.op \in {"resolve_sections", "failed_resolve_sections", "add_sections",
                   "panicked_add_sections", "done_add_sections"}

\* The input sections resolve_sections has produced a slot for.
Resolved == IF InSections THEN 1..Len(object.sections) ELSE {}

IsCustom(sec, debug) ==
    /\ IsSome(sec.unloaded)
    /\ Unwrap(sec.unloaded).part_id.kind = "Custom"
    /\ starts_with(Unwrap(sec.unloaded).part_id.name, DEBUG_PREFIX) = debug

IsStringMerge(sec) == IsSome(sec.unloaded) /\ Unwrap(sec.unloaded).is_string_merge

\* How many records of custom_sections are for the input section at position i.
Records(i) ==
    Cardinality({ k \in 1..Len(object.custom_sections) :
                    object.custom_sections[k].index = i - 1 })

\* set_part_id was called on the slot at position i.
Assigned(i) == \E k \in 1..Len(object.assigned) : object.assigned[k] = i - 1

\* The slot at position i is Discard only if it holds no part id, no record
\* was emitted for it and set_part_id is never called on it.
DiscardHasNoPart ==
    /\ object.op # "panicked_add_sections"
    /\ \A i \in Resolved :
          object.sections[i].kind = "Discard" =>
              /\ object.sections[i].part_id = NoPart
              /\ Records(i) = 0
              /\ ~Assigned(i)

C24_Original ==
    object.op = "resolve_sections" =>
        \A i \in Resolved :
            IsCustom(object.input[i], TRUE) =>
                IF object.strip_debug
                THEN object.sections[i] = Discard /\ Records(i) = 0
                ELSE /\ object.sections[i] = Slot("UnloadedDebugInfo", CUSTOM_PLACEHOLDER, 0)
                     /\ Records(i) = 1

\* C24: a section that the classifier assigns to a custom part whose name
\* begins with .debug_ and that is not a string-merge section gets, when
\* strip_debug is set, the slot Discard and no CustomSectionDetails record,
\* and when strip_debug is not set, UnloadedDebugInfo(placeholder) and one
\* record; a string-merge section with such a name gets MergeStrings and one
\* record whether strip_debug is set or not.
C24_StripDebug ==
    object.op = "resolve_sections" =>
        \A i \in Resolved :
            IsCustom(object.input[i], TRUE) =>
                IF IsStringMerge(object.input[i])
                THEN /\ object.sections[i] = Slot("MergeStrings", CUSTOM_PLACEHOLDER, 0)
                     /\ Records(i) = 1
                ELSE IF object.strip_debug
                THEN object.sections[i] = Discard /\ Records(i) = 0
                ELSE /\ object.sections[i] = Slot("UnloadedDebugInfo", CUSTOM_PLACEHOLDER, 0)
                     /\ Records(i) = 1

\* With strip_debug, resolve_sections has gone past a .debug_ section that was
\* discarded and a string-merge .debug_ section that was kept.
C24_Witness ==
    /\ object.op = "resolve_sections"
    /\ object.strip_debug
    /\ \E i \in Resolved :
          /\ IsCustom(object.input[i], TRUE)
          /\ object.sections[i] = Discard
    /\ \E i \in Resolved :
          /\ IsCustom(object.input[i], TRUE)
          /\ object.sections[i].kind = "MergeStrings"
          /\ Records(i) = 1

\* ------------------------------------------------------------------ C39
\* resolve_sections has produced slots and no part id has been assigned yet.
BeforeAssignment ==
    \/ object.op = "resolve_sections"
    \/ object.op = "add_sections" /\ object.assigned = <<>>

PlaceholderKinds == {"Unloaded", "MustLoad", "UnloadedDebugInfo", "MergeStrings"}

\* C39: in the output of resolve_sections every CustomSectionDetails record
\* points at a slot that is Unloaded, MustLoad, UnloadedDebugInfo or
\* MergeStrings and holds the placeholder part id (never at Discard or
\* EhFrameData), there is at most one record per input section, and every slot
\* that holds the placeholder part id has a record, so that after the part ids
\* of the custom sections are assigned no slot holds the placeholder.
C39_PlaceholdersHaveRecords ==
    /\ object.op # "panicked_add_sections"
    /\ BeforeAssignment =>
          /\ \A k \in 1..Len(object.custom_sections) :
                LET i == object.custom_sections[k].index + 1
                IN  /\ i \in Resolved
                    /\ object.sections[i].kind \in PlaceholderKinds
                    /\ object.sections[i].part_id = CUSTOM_PLACEHOLDER
          /\ \A i \in Resolved :
                /\ Records(i) <= 1
                /\ object.sections[i].part_id = CUSTOM_PLACEHOLDER => Records(i) = 1
    /\ object.op = "done_add_sections" =>
          \A i \in Resolved : object.sections[i].part_id # CUSTOM_PLACEHOLDER

\* ------------------------------------------------------------------ resolve_symbols: helpers
InSymbols == object.op \in {"resolve_symbols", "done_resolve_symbols"}

\* The local symbol indexes resolve_symbol has been called for.
Entries == IF InSymbols THEN 0..(object.index - 1) ELSE {}

LocalSymbolAt(i) == object.symbols[i + 1]
OldDefinition(i) == object.old_definitions[i + 1]
NewDefinition(i) == object.definitions_out[i + 1]
Lookup(i) == object.global_names[LocalSymbolAt(i).name]

\* Entry i is one resolve_symbol returns early for.
Skipped(i) == i = 0 \/ OldDefinition(i) # UndefinedSymbolId

\* The files request_file_id was called with for entry i, and the records
\* pushed to undefined_symbols_out for it.
RequestsFor(i) ==
    { k \in 1..Len(object.requests) : object.requests[k].index = i }
UndefinedFor(i) ==
    { k \in 1..Len(object.undefined_symbols_out) :
        object.undefined_symbols_out[k].symbol_id = SymbolIdOf(object.file_id, i) }

\* ------------------------------------------------------------------ C25
\* C25: when the name of an unresolved entry is found in global_names, the
\* definition slot is set to that symbol id, and request_file_id(f) is invoked,
\* once, exactly when the owning file f differs from the current file and the
\* local reference is not weak; no weak reference leads to a request, so a
\* file the object references only weakly is never requested by it.
C25_RequestIffStrongAndOther ==
    /\ \A i \in Entries :
          (~Skipped(i) /\ IsSome(Lookup(i))) =>
              LET f == Unwrap(Lookup(i)).file
              IN  /\ NewDefinition(i) = Unwrap(Lookup(i))
                  /\ \A k \in RequestsFor(i) : object.requests[k].file = f
                  /\ Cardinality(RequestsFor(i)) =
                        IF f # object.file_id /\ ~LocalSymbolAt(i).is_weak THEN 1 ELSE 0
    /\ InSymbols =>
          \A k \in 1..Len(object.requests) :
              /\ ~LocalSymbolAt(object.requests[k].index).is_weak
              /\ object.requests[k].file # object.file_id

\* resolve_symbols has returned for an object with a weak and a non-weak
\* reference to symbols of two other files: only the second file was requested.
C25_Witness ==
    /\ object.op = "done_resolve_symbols"
    /\ \E i \in Entries : \E j \in Entries :
          /\ ~Skipped(i) /\ ~Skipped(j)
          /\ IsSome(Lookup(i)) /\ IsSome(Lookup(j))
          /\ LocalSymbolAt(i).is_weak /\ ~LocalSymbolAt(j).is_weak
          /\ Unwrap(Lookup(i)).file \notin {object.file_id, PRELUDE_FILE_ID}
          /\ Unwrap(Lookup(j)).file \notin {object.file_id, Unwrap(Lookup(i)).file}
          /\ NewDefinition(i) = Unwrap(Lookup(i))
          /\ RequestsFor(i) = {}
          /\ RequestsFor(j) # {}
          /\ \A k \in 1..Len(object.requests) :
                object.requests[k].file # Unwrap(Lookup(i)).file

\* ------------------------------------------------------------------ C26
\* The records pushed for entry i with the given ignore_if_loaded.
RecordsWith(i, ignore_if_loaded) ==
    { k \in UndefinedFor(i) :
        object.undefined_symbols_out[k].ignore_if_loaded = ignore_if_loaded }

C27_SkipAndMiss ==
    \A i \in Entries :
        /\ Skipped(i) =>
              /\ NewDefinition(i) = OldDefinition(i)
              /\ RequestsFor(i) = {}
              /\ UndefinedFor(i) = {}
        /\ (~Skipped(i) /\ ~IsSome(Lookup(i))) => NewDefinition(i) = OldDefinition(i)

\* resolve_symbols has returned for an object that defines a symbol whose name
\* is a global name of another file, and that has an unknown name.
C27_Witness ==
    /\ object.op = "done_resolve_symbols"
    /\ \E i \in Entries :
          /\ i # 0 /\ Skipped(i)
          /\ IsSome(Lookup(i))
          /\ Unwrap(Lookup(i)).file # object.file_id
          /\ NewDefinition(i) = SymbolIdOf(object.file_id, i)
    /\ \E i \in Entries :
          /\ ~Skipped(i) /\ ~IsSome(Lookup(i))
          /\ NewDefinition(i) = UndefinedSymbolId

\* ------------------------------------------------------------------ select_symbol against the reference algorithm
\* The alternatives in the order select_symbol scans them, as positions: position
\* 1 is the last of the chain.
Scanned == Rev(alternatives)
NonDynamic == { i \in 1..Len(Scanned) : ~IsDynamic(Scanned[i]) }
ScannedStrong == { i \in NonDynamic : StrengthOf(Scanned[i]).kind = "Strong" }
ScannedCommon == { i \in NonDynamic : StrengthOf(Scanned[i]).kind = "Common" }
ScannedDefined == { i \in 1..Len(Scanned) : StrengthOf(Scanned[i]).kind # "Undefined" }
Earliest(S) == CHOOSE i \in S : \A j \in S : i <= j
\* The largest Common; of several of that size, the one scanned earliest.
LargestCommon ==
    Earliest({ i \in ScannedCommon :
                 \A j \in ScannedCommon :
                     StrengthOf(Scanned[j]).size <= StrengthOf(Scanned[i]).size })
Reference ==
    IF StrengthOf(first).kind = "Strong" THEN first
    ELSE IF ScannedStrong # {} THEN Scanned[Earliest(ScannedStrong)]
    ELSE IF ScannedCommon # {} THEN Scanned[LargestCommon]
    ELSE IF StrengthOf(first).kind # "Undefined" THEN first
    ELSE IF ScannedDefined # {} THEN Scanned[Earliest(ScannedDefined)]
    ELSE first

\* C29: select_symbol returns what the reference algorithm gives: the head if
\* Strong; else, over the alternatives in reverse chain order without the DYNAMIC
\* ones, the first Strong, else the largest Common, the earlier one scanned on a
\* tie; else the head if not Undefined; else the first alternative in reverse
\* order that is not Undefined; else the head.
C29_SelectIsReference == IsSome(selected) => Chosen = Reference

\* C29 witness: the head is Weak and two non-dynamic alternatives are Common of
\* one size; the one scanned first, the last of the chain, has been selected.
C29_Witness ==
    /\ IsSome(selected)
    /\ StrengthOf(first).kind = "Weak"
    /\ Len(alternatives) = 2
    /\ ScannedCommon = {1, 2}
    /\ StrengthOf(Scanned[1]).size = StrengthOf(Scanned[2]).size
    /\ Chosen = alternatives[2]

\* ------------------------------------------------------------------ resolve_symbols_and_sections: the passes
RanPasses == { passes.ran[i] : i \in 1..Len(passes.ran) }
PositionOf(name) == CHOOSE i \in 1..Len(passes.ran) : passes.ran[i] = name
\* Pass b has not run unless pass a ran before it.
Before(a, b) ==
    b \in RanPasses => (a \in RanPasses /\ PositionOf(a) < PositionOf(b))
\* Every replace_definition of pass a was called before every one of pass b.
CallsBefore(a, b) ==
    \A i, j \in 1..Len(passes.calls) :
        (passes.calls[i].by = a /\ passes.calls[j].by = b) => i < j

\* C28 as claimed: the selector of alternatives runs first, then merge_strings,
\* then the canonicaliser of undefined symbols, and every replace_definition of
\* the selector precedes every one of the canonicaliser.
C28_Original ==
    passes # None =>
        /\ Before("resolve_alternative_symbol_definitions", "merge_strings")
        /\ Before("merge_strings", "canonicalise_undefined_symbols")
        /\ CallsBefore("resolve_alternative_symbol_definitions",
                       "canonicalise_undefined_symbols")

\* C28: after resolve_symbols_in_files the passes run in the order
\* assign_section_ids, merge_strings, canonicalise_undefined_symbols,
\* resolve_alternative_symbol_definitions, each only if the one before returned
\* Ok, and every replace_definition of the canonicaliser precedes every one of
\* the selector of alternatives.
C28_PassOrder ==
    passes # None =>
        /\ Before("resolve_symbols_in_files", "assign_section_ids")
        /\ Before("assign_section_ids", "merge_strings")
        /\ Before("merge_strings", "canonicalise_undefined_symbols")
        /\ Before("canonicalise_undefined_symbols", "resolve_alternative_symbol_definitions")
        /\ CallsBefore("canonicalise_undefined_symbols",
                       "resolve_alternative_symbol_definitions")
        /\ (passes.status = "ok" => Len(passes.ran) = Len(PassOrder))

\* C28 witness: resolve_symbols_and_sections has returned Ok after the
\* canonicaliser and the selector have both called replace_definition.
C28_Witness ==
    /\ passes # None
    /\ passes.status = "ok"
    /\ passes.prelude
    /\ \E i \in 1..Len(passes.calls) :
          passes.calls[i].by = "canonicalise_undefined_symbols"
    /\ \E j \in 1..Len(passes.calls) :
          passes.calls[j].by = "resolve_alternative_symbol_definitions"

\* ------------------------------------------------------------------ resolve_alternative_symbol_definitions
\* The head h and the symbols on its chain of alternative_definitions: h, its
\* prior definition, the prior definition of that one, and so on to the end.
RECURSIVE ChainFrom(_)
ChainFrom(s) ==
    IF ends_chain(s) THEN {}
    ELSE {s} \cup ChainFrom(passes.previous_definitions[s])
OnChain(h) == ChainFrom(h)
\* The ids symbol s was redirected to by the selector of alternatives.
RedirectedTo(s) ==
    { passes.calls[i].to : i \in { k \in 1..Len(passes.calls) :
          /\ passes.calls[k].by = "resolve_alternative_symbol_definitions"
          /\ passes.calls[k].symbol_id = s } }
AllHeads == { passes.heads[i] : i \in 1..Len(passes.heads) }

StepOf(t) == pc'[t] # pc[t] \/ sym_index'[t] # sym_index[t]
\* Worker t is inside request_file_id, after the take that gave it the slice.
InRequest(t) == pc[t] \in {"push_work", "pop_idle", "unpark"}
\* The handles idle_threads holds, none when there is no idle queue.
IdleQueue == IF IsSome(idle_threads) THEN Unwrap(idle_threads) ELSE <<>>
IdleQueueNext == IF IsSome(idle_threads') THEN Unwrap(idle_threads') ELSE <<>>

\* The call of request_file_id(g) by worker t that finds the cell of g empty.
RequestFindsEmpty(t) ==
    \E g \in Files : AtStrongRefTo(t, g) /\ g # Unwrap(work_item[t])
                     /\ File(Unwrap(work_item[t])).fail_at # sym_index[t]
                     /\ ~definitions_per_file[g]
\* The call of request_file_id(g) by worker t that obtains the slice.
RequestObtains(t) == pc[t] = "process" /\ pc'[t] = "push_work"

RequestSteps(t) ==
    /\ (RequestFindsEmpty(t) /\ StepOf(t)) =>
          /\ pc'[t] = "process"
          /\ sym_index'[t] = sym_index[t] + 1
          /\ UNCHANGED <<work_queue, idle_threads, popped, park_token, definitions_per_file>>
    /\ RequestObtains(t) =>
          /\ \E g \in Files : /\ AtStrongRefTo(t, g)
                              /\ definitions_per_file[g]
                              /\ ~definitions_per_file'[g]
          /\ UNCHANGED <<work_queue, idle_threads, popped, park_token>>
    /\ (pc[t] = "push_work" /\ StepOf(t)) =>
          /\ pc'[t] = "pop_idle"
          /\ work_queue' = Append(work_queue, Pushing(t))
          /\ UNCHANGED <<idle_threads, popped, park_token>>
    /\ (pc[t] = "pop_idle" /\ StepOf(t)) =>
          /\ UNCHANGED <<work_queue, park_token>>
          /\ IF IdleQueue = <<>>
             THEN pc'[t] = "process" /\ UNCHANGED <<idle_threads, popped>>
             ELSE /\ pc'[t] = "unpark"
                  /\ popped'[t] = Some(Head(IdleQueue))
                  /\ IdleQueueNext = Tail(IdleQueue)
    /\ (pc[t] = "unpark" /\ StepOf(t)) =>
          /\ pc'[t] = "process"
          /\ popped'[t] = None
          /\ park_token' = [park_token EXCEPT ![Unwrap(popped[t])] = TRUE]
          /\ UNCHANGED <<work_queue, idle_threads>>
    /\ (InRequest(t) /\ pc'[t] = "process") => sym_index'[t] = sym_index[t] + 1

\* C31: request_file_id never blocks, each of its steps can always be taken; a
\* call that finds the cell empty changes nothing but the caller's position; a
\* call that obtains the slice pushes exactly one work item, then pops at most
\* one handle from idle_threads and unparks the handle it popped, and returns.
C31_RequestFileId ==
    /\ [](\A t \in Threads :
            /\ pc[t] = "push_work" => ENABLED PushWork(t)
            /\ pc[t] = "pop_idle" => ENABLED PopIdle(t)
            /\ pc[t] = "unpark" => ENABLED Unpark(t)
            /\ RequestFindsEmpty(t) => ENABLED ResolveSymbol(t))
    /\ [][\A t \in Threads : RequestSteps(t)]_vars

\* C31 witness: a worker that obtained a slice has pushed its work item and
\* popped the handle of an idle worker, which it is about to unpark, while the
\* cell of a file requested before is empty.
C31_Witness ==
    \E t \in Threads :
        /\ pc[t] = "unpark"
        /\ IsSome(popped[t])
        /\ Count(work_queue, Pushing(t)) + processed[Pushing(t)] = 1
        /\ \E g \in requested \ {Pushing(t)} : ~definitions_per_file[g]

\* ------------------------------------------------------------------ failure of a work item
\* The files a work item was created for: their cell has been emptied.
Claimed == { f \in Files : main_pc # "setup" /\ ~definitions_per_file[f] }
\* Worker t records the failure of its work item in this step.
Fails(t) == pc[t] = "process" /\ pc'[t] # "process" /\ Len(error_log') > Len(error_log)

\* C32: a failure cancels nothing.  The worker that records it goes back to
\* popping the work queue, and neither the queue nor `done` is touched by the
\* failure; and when the workers have exited after a failure, the queue is empty
\* and every file a work item was ever created for has been processed.
C32_NoCancellation ==
    /\ []((AllExited /\ error_log # <<>>) =>
             /\ work_queue = <<>>
             /\ \A f \in Claimed : processed[f] = 1)
    /\ [][\A t \in Threads :
             Fails(t) => /\ pc'[t] = "pop_work"
                         /\ UNCHANGED <<work_queue, done, idle_threads, park_token>>]_vars

\* C32 witness: after a failure was recorded, a worker is processing the work
\* item of another file and a further work item waits in the queue.
C32_Witness ==
    /\ error_log # <<>>
    /\ work_queue # <<>>
    /\ \E t \in Threads :
          /\ pc[t] = "process"
          /\ \A i \in 1..Len(error_log) : error_log[i].file # work_item[t]

\* ------------------------------------------------------------------ a single thread
\* The positions of a worker that has to do with the idle queue or with parking.
IdlePositions ==
    {"park", "push_idle", "store_done", "drain_idle", "unpark", "unpark_drained"}

\* C33: with num_threads = 1 there is no idle queue and one worker, which never
\* parks, never sets `done` and never touches an idle handle; the first time it
\* finds the work queue empty it exits, and then every file a work item was
\* created for, at setup or by its own requests, has been processed.
C33_SingleThread ==
    /\ [](num_threads = 1 =>
            /\ idle_threads = None
            /\ ~done
            /\ Spawned \subseteq {1}
            /\ \A t \in Threads :
                  /\ pc[t] \notin IdlePositions
                  /\ ~idle[t] /\ ~park_token[t] /\ popped[t] = None
                  /\ pc[t] = "exit" =>
                        /\ work_queue = <<>>
                        /\ \A f \in Claimed : processed[f] = 1
                        /\ requested \subseteq Claimed)
    /\ [][\A t \in Threads :
             (num_threads = 1 /\ pc[t] = "pop_work" /\ work_queue = <<>> /\ StepOf(t))
                 => pc'[t] = "exit"]_vars

\* C33 witness: the single worker has exited after processing a file it
\* requested itself besides those queued at setup.
C33_Witness ==
    /\ num_threads = 1
    /\ pc[1] = "exit"
    /\ \E f \in requested : File(f).optional /\ processed[f] = 1
    /\ \E f \in Files : IsRequired(f) /\ processed[f] = 1

\* ------------------------------------------------------------------ ValueFlags::merge
\* Bit b of a value.
Bit(x, b) == (x \div (2 ^ b)) % 2
BypassBit == CHOOSE b \in 0..(ValueFlagsWidth - 1) : 2 ^ b = CAN_BYPASS_GOT

\* C34: after self.merge(other), CAN_BYPASS_GOT is in self when it was there
\* before or other contains it, so it has been set by the merge exactly when
\* other contains it; every other bit of self is as before, whatever other
\* holds; and every repetition of the merge gives the result of the first.
C34_MergeBypassGotOnly ==
    (value_flags # None /\ value_flags.results # <<>>) =>
        LET r == value_flags.results[1]
            old == value_flags.old
            other == value_flags.other
        IN  /\ Bit(r, BypassBit) = 1 <=> (Bit(old, BypassBit) = 1 \/ Bit(other, BypassBit) = 1)
            /\ \A b \in 0..(ValueFlagsWidth - 1) \ {BypassBit} : Bit(r, b) = Bit(old, b)
            /\ \A i \in 1..Len(value_flags.results) : value_flags.results[i] = r
            /\ value_flags.self = r

\* C34 witness: merged twice, other holding CAN_BYPASS_GOT and other bits that
\* self lacked: self has gained CAN_BYPASS_GOT and nothing else.
C34_Witness ==
    /\ value_flags # None
    /\ Len(value_flags.results) = 2
    /\ value_flags.old = 1
    /\ value_flags.other = CAN_BYPASS_GOT + 4 + 64
    /\ value_flags.self = CAN_BYPASS_GOT + 1

\* ------------------------------------------------------------------ wake-ups
\* Worker t is blocked in park(): it is at the call and its token is not set.
Blocked(t) == pc[t] = "park" /\ ~park_token[t]
\* The handle of t was popped by a thread that has still to unpark it.
PoppedNotUnparked(t) == \E u \in Threads : popped[u] = Some(t)

C36_DefinitionsRestored ==
    main_pc = "returned" => db_calls = <<"take_definitions", "restore_definitions">>

\* ------------------------------------------------------------------ select_symbol and loaded files
\* The definition belongs to a file that is a loaded ResolvedFile::Object.
InLoadedObject(s) == resolved[file_id_for_symbol(s)] = "Object"

Finishes(t) == pc[t] = "process" /\ pc'[t] = "pop_work"

\* C38: process_object on the prelude or an epilogue does nothing: nothing is
\* pushed to outputs.loaded, nothing to outputs.errors, no work is queued.  A
\* push to outputs.loaded is never rejected, the queue holding at most
\* num_objects objects.  And in the outputs of resolve_symbols_and_sections
\* there is one ResolvedFile per input file: Prelude for the prelude, Epilogue
\* for an epilogue, Object for an object that was processed, and NotLoaded for
\* an optional object that was never requested.
C38_ResolvedGroups ==
    /\ [][\A t \in Threads :
             Finishes(t) =>
                 LET f == Unwrap(work_item[t])
                 IN  IF ~IsObject(f)
                     THEN UNCHANGED <<loaded, errors, error_log, work_queue, requested,
                                      definitions_per_file>>
                     ELSE Len(error_log') = Len(error_log) => loaded' = Append(loaded, f)]_vars
    /\ [](Len(loaded) <= num_objects)
    /\ [](main_pc = "outputs" =>
            /\ DOMAIN resolved = DOMAIN groups
            /\ \A f \in Files :
                  /\ File(f).kind = "Prelude" => resolved[f] = "Prelude"
                  /\ File(f).kind = "Epilogue" => resolved[f] = "Epilogue"
                  /\ (IsObject(f) /\ processed[f] = 1) => resolved[f] = "Object"
                  /\ (IsObject(f) /\ File(f).optional /\ f \notin requested) =>
                        resolved[f] = "NotLoaded" /\ processed[f] = 0)

\* C38 witness: the outputs are returned after a work item was processed for the
\* prelude and one for an epilogue, both requested by a non-weak reference,
\* with an optional object left NotLoaded.
C38_Witness ==
    /\ main_pc = "outputs"
    /\ processed[PRELUDE_FILE_ID] = 1
    /\ \E f \in requested : File(f).kind = "Epilogue" /\ processed[f] = 1
    /\ \E f \in Files : IsObject(f) /\ resolved[f] = "NotLoaded"
    /\ Len(loaded) = num_objects - 1

====
